---------------------------- MODULE Spec2Model ----------------------------
(***************************************************************************)
(* The linting orchestration engine of vscode_autolinter: WorkspaceLinter  *)
(* (queue, batch drain, workspace run, start/stop/dispose) over the        *)
(* DiagnosticProvider, running on the single-threaded host event loop.     *)
(*                                                                         *)
(* Event-loop discipline (Node.js): a handler runs to its next await; the  *)
(* continuation of an await on an already settled promise is a microtask;  *)
(* timers, process/file I/O completions, commands and editor events are    *)
(* macrotasks, and no macrotask runs while a microtask is runnable.        *)
(* An action below is one such run-to-completion step.                     *)
(***************************************************************************)
EXTENDS Integers, Sequences, FiniteSets, TLC

VARIABLES
    isLinting,            \* WorkspaceLinter.isLinting
    linters,              \* WorkspaceLinter.linters: names of the registered adapters
    lintingQueue,         \* WorkspaceLinter.lintingQueue: Seq of [uri, priority]
    isProcessingQueue,    \* WorkspaceLinter.isProcessingQueue
    lintingStats,         \* WorkspaceLinter.lintingStats
    diagnosticCollection, \* DiagnosticProvider.diagnosticCollection: uri -> entry
    fileStats,            \* DiagnosticProvider.diagnosticStats.fileStats: uri -> counts
    diagnosticStats,      \* DiagnosticProvider.diagnosticStats: the totals
    active,               \* processQueue activations suspended at `await lintSingleFile`:
                          \* the items of the batch still to do, the first one in flight
    timers,               \* pending setTimeout(..., 10) continuations of processQueue
    ws,                   \* the lintWorkspace call in progress, if any: where it is,
                          \* the files it discovered, filesProcessed when it began,
                          \* the parity of its loop turns since it last waited
    configCache,          \* WorkspaceLinter.configCache: excludePatterns, maxFiles
    gitignorePatterns,    \* WorkspaceLinter.gitignorePatterns: Seq of patterns
    gitignoreCacheTime,   \* WorkspaceLinter.gitignoreCacheTime
    gitignoreFile,        \* the .gitignore of the workspace root on disk
    now,                  \* Date.now()
    fileChangeTimeout,    \* extensions.ts: the uri of the pending debounce timer
    stopped,              \* history: stopLinting was called and startLinting not since
    last,                 \* history: what the last step did
    trace,                \* history: enqueue/dispatch order (queue harness only)
    isInitialized,        \* WorkspaceLinter.isInitialized
    wl,                   \* src/workspaceLinter.ts: the WorkspaceLinter of that file
    probe,                \* arguments and result of a function applied on its own
    boot                  \* activate(): its position, the initialize() calls under
                          \* way, the loadConfiguration calls and the constructions
                          \* of the adapters made

vars == <<isLinting, linters, lintingQueue, isProcessingQueue, lintingStats,
          diagnosticCollection, fileStats, diagnosticStats, active, timers, ws, configCache,
          gitignorePatterns, gitignoreCacheTime, gitignoreFile, now,
          fileChangeTimeout, stopped, last, trace, isInitialized, wl, probe,
          boot>>

\* what the orchestrator reads and never writes
hostVars == <<configCache, gitignoreFile, now, fileChangeTimeout,
              isInitialized, wl, probe, boot>>
\* the ignore-pattern cache
ignoreVars == <<gitignorePatterns, gitignoreCacheTime>>

-----------------------------------------------------------------------------
(* Bounds of the model *)

\* processQueue activations in flight plus pending timer continuations
MaxInFlight == 2
\* workspace runs are started while fewer files than this were counted
MaxFilesProcessed == 1
\* direct addToQueue calls of the queue harness
MaxEnqueues == 4
MaxCachePeriods == 4
MaxStatsFiles == 4

(* Program constants *)

batchSize == 5
HighPriority == 100
LowPriority == 1
gitignoreCacheDuration == 30000
defaultMaxFiles == 1000
lintFirstCount == 1000

-----------------------------------------------------------------------------
(* Files, extensions and adapters *)

\* The files of the model, and those the editor raises events for
Files == {"a.css", "b.py", "c.scss", "d.pyw", "e.ts", "p/out/q/x.css"}
EventFiles == {"a.css", "b.py", "e.ts"}

\* path.extname(uri.fsPath).slice(1).toLowerCase()
ExtOf(f) ==
    CASE f = "a.css"  -> "css"
      [] f = "b.py"   -> "py"
      [] f = "c.scss" -> "scss"
      [] f = "d.pyw"  -> "pyw"
      [] f = "e.ts"   -> "ts"
      [] f = "p/out/q/x.css" -> "css"

\* vscode.workspace.asRelativePath(uri), character by character
PathOf(f) ==
    CASE f = "a.css"  -> <<"a", ".", "c", "s", "s">>
      [] f = "b.py"   -> <<"b", ".", "p", "y">>
      [] f = "c.scss" -> <<"c", ".", "s", "c", "s", "s">>
      [] f = "d.pyw"  -> <<"d", ".", "p", "y", "w">>
      [] f = "e.ts"   -> <<"e", ".", "t", "s">>
      [] f = "p/out/q/x.css" -> <<"p", "/", "o", "u", "t", "/", "q", "/", "x", ".", "c", "s", "s">>

\* getSupportedExtensions() of each adapter, as the adapter returns them
AdapterExtensions(name) ==
    CASE name = "css"        -> {"css", "scss", "sass", "less"}
      [] name = "python"     -> {"py", "pyw"}
      [] name = "typescript" -> {".ts", ".tsx"}
      [] name = "html"       -> {".html", ".htm", ".xhtml"}

\* whether lint() of the adapter settles without leaving the current turn
\* (fs.readFileSync / compiler API) or after a child-process callback
AdapterIsSync(name) == name \in {"css", "typescript"}

\* the adapters initializeLinters registers: enabled language, isEnabled() true
RegisteredLinters == {"typescript", "python", "html", "css"}

\* WorkspaceLinter.getSupportedExtensions
getSupportedExtensions(reg) == UNION {AdapterExtensions(n) : n \in reg}

\* linterMap of getLinterForExtension
linterMap(ext) ==
    CASE ext \in {"ts", "tsx"}                   -> "typescript"
      [] ext \in {"js", "jsx", "mjs"}            -> "javascript"
      [] ext = "py"                              -> "python"
      [] ext \in {"html", "htm"}                 -> "html"
      [] ext \in {"css", "scss", "sass", "less"} -> "css"
      [] OTHER                                   -> "none"

\* WorkspaceLinter.getLinterForExtension: the adapter's name, or "none"
getLinterForExtension(ext, reg) ==
    IF linterMap(ext) \in reg THEN linterMap(ext) ELSE "none"

-----------------------------------------------------------------------------
(* Pattern matching. Patterns and paths are sequences of characters; patterns  *)
(* are written with letters, digits, '/', '.', '*', '?', '#', '_' and '-'.     *)

\* pattern.replace(/\./g, '\\.')
ReplaceDots(p) ==
    LET RECURSIVE R(_)
        R(x) == IF x = <<>> THEN <<>>
                ELSE IF Head(x) = "." THEN <<"\\", ".">> \o R(Tail(x))
                     ELSE <<Head(x)>> \o R(Tail(x))
    IN  R(p)

\* .replace(/\*\*/g, '.*')
ReplaceDoubleStars(p) ==
    LET RECURSIVE R(_)
        R(x) == IF x = <<>> THEN <<>>
                ELSE IF Len(x) >= 2 /\ x[1] = "*" /\ x[2] = "*"
                     THEN <<".", "*">> \o R(SubSeq(x, 3, Len(x)))
                     ELSE <<Head(x)>> \o R(Tail(x))
    IN  R(p)

\* .replace(/\*/g, '[^/]*')
ReplaceStars(p) ==
    LET RECURSIVE R(_)
        R(x) == IF x = <<>> THEN <<>>
                ELSE IF Head(x) = "*" THEN <<"[", "^", "/", "]", "*">> \o R(Tail(x))
                     ELSE <<Head(x)>> \o R(Tail(x))
    IN  R(p)

\* .replace(/\?/g, '.')
ReplaceQuestionMarks(p) ==
    LET RECURSIVE R(_)
        R(x) == IF x = <<>> THEN <<>>
                ELSE IF Head(x) = "?" THEN <<".">> \o R(Tail(x))
                     ELSE <<Head(x)>> \o R(Tail(x))
    IN  R(p)

\* the source of the regular expression matchesPattern builds, the four
\* replacements applied one after the other
regexPattern(pattern) ==
    ReplaceQuestionMarks(ReplaceStars(ReplaceDoubleStars(ReplaceDots(pattern))))

\* new RegExp(source): an escaped character, the class [^/] with its star, the
\* dot, or a character standing for itself
RegExpTokens(source) ==
    LET RECURSIVE T(_)
        T(x) ==
            IF x = <<>> THEN <<>>
            ELSE IF x[1] = "\\" /\ Len(x) >= 2
                 THEN <<[kind |-> "char", c |-> x[2]]>> \o T(SubSeq(x, 3, Len(x)))
            ELSE IF Len(x) >= 5 /\ SubSeq(x, 1, 5) = <<"[", "^", "/", "]", "*">>
                 THEN <<[kind |-> "notSlashStar", c |-> ""]>> \o T(SubSeq(x, 6, Len(x)))
            ELSE IF x[1] = "."
                 THEN <<[kind |-> "any", c |-> ""]>> \o T(Tail(x))
            ELSE <<[kind |-> "char", c |-> x[1]]>> \o T(Tail(x))
    IN  T(source)

\* new RegExp(`^${source}$`).test(path)
RegExpTest(source, path) ==
    LET RECURSIVE M(_, _)
        M(toks, x) ==
            IF toks = <<>> THEN x = <<>>
            ELSE LET t == Head(toks)
                 IN  IF t.kind = "notSlashStar"
                     THEN \E n \in 0..Len(x) :
                            /\ \A i \in 1..n : x[i] # "/"
                            /\ M(Tail(toks), SubSeq(x, n + 1, Len(x)))
                     ELSE /\ x # <<>>
                          /\ t.kind = "char" => Head(x) = t.c
                          /\ M(Tail(toks), Tail(x))
    IN  M(RegExpTokens(source), path)

\* WorkspaceLinter.matchesPattern
matchesPattern(path, pattern) == RegExpTest(regexPattern(pattern), path)

\* WorkspaceLinter.matchesGitignore
matchesGitignore(path, patterns) ==
    \E i \in 1..Len(patterns) : matchesPattern(path, patterns[i])

\* WorkspaceLinter.shouldLintFile
shouldLintFile(f, reg) ==
    /\ ~matchesGitignore(PathOf(f), gitignorePatterns)
    /\ ~\E i \in 1..Len(configCache.excludePatterns) :
           matchesPattern(PathOf(f), configCache.excludePatterns[i])
    /\ ExtOf(f) \in getSupportedExtensions(reg)

-----------------------------------------------------------------------------
(* The ignore-pattern cache *)

IsBlank(c) == c \in {" ", "\t", "\r"}

\* String.prototype.trim
Trim(line) ==
    LET RECURSIVE L(_)
        L(x) == IF x # <<>> /\ IsBlank(Head(x)) THEN L(Tail(x)) ELSE x
        RECURSIVE Rt(_)
        Rt(x) == IF x # <<>> /\ IsBlank(x[Len(x)])
                 THEN Rt(SubSeq(x, 1, Len(x) - 1)) ELSE x
    IN  Rt(L(line))

\* the loop of loadGitignorePatterns over the lines of the file: trimmed, the
\* empty lines and the comments skipped
parseGitignore(lines) ==
    LET RECURSIVE P(_)
        P(ls) == IF ls = <<>> THEN <<>>
                 ELSE LET t == Trim(Head(ls))
                      IN  IF t # <<>> /\ Head(t) # "#"
                          THEN <<t>> \o P(Tail(ls)) ELSE P(Tail(ls))
    IN  P(lines)

\* a cache check that never finds the cache valid
cacheValid_Never(clock, t) == FALSE

\* loadGitignorePatterns: now - this.gitignoreCacheTime < this.gitignoreCacheDuration
cacheValid(clock, t) == clock - t < gitignoreCacheDuration

\* loadGitignorePatterns(): the pattern set and the cache time afterwards, and
\* how the call went: "cached", "failed" (readFileSync threw) or "loaded"
loadGitignorePatterns(patterns, t, clock, file) ==
    IF cacheValid(clock, t)
    THEN [patterns |-> patterns, cacheTime |-> t, how |-> "cached"]
    ELSE IF file.exists /\ ~file.readable
    THEN [patterns |-> <<>>, cacheTime |-> t, how |-> "failed"]
    ELSE [patterns |-> IF file.exists THEN parseGitignore(file.lines) ELSE <<>>,
          cacheTime |-> clock, how |-> "loaded"]

\* no .gitignore in the workspace root
NoIgnoreFile == [exists |-> FALSE, readable |-> FALSE, lines |-> <<>>]

\* how the await of lintSingleFile(uri) resolves: no adapter, or its kind
DispatchKind(f, reg) ==
    LET n == getLinterForExtension(ExtOf(f), reg)
    IN  IF n = "none" THEN "nolinter"
        ELSE IF AdapterIsSync(n) THEN "sync" ELSE "io"

\* issue lists an adapter may return (severities of the issues)
IssueLists == {<<>>, <<"error", "warning", "info">>}

-----------------------------------------------------------------------------
(* DiagnosticProvider *)

\* a uri without an entry in the collection / in fileStats
NoEntry == [present |-> FALSE, issues |-> <<>>]
NoStats == [present |-> FALSE, errors |-> 0, warnings |-> 0, info |-> 0]

CountOf(issues, sev) == Cardinality({i \in 1..Len(issues) : issues[i] = sev})

\* updateFileStats: the per-file counts of an issue list
StatsOf(issues) ==
    [present |-> TRUE,
     errors |-> CountOf(issues, "error"),
     warnings |-> CountOf(issues, "warning"),
     info |-> CountOf(issues, "info")]

RECURSIVE SumOver(_, _, _)
SumOver(fs, S, field) ==
    IF S = {} THEN 0
    ELSE LET f == CHOOSE x \in S : TRUE
             v == IF field = "errors" THEN fs[f].errors
                  ELSE IF field = "warnings" THEN fs[f].warnings
                  ELSE fs[f].info
         IN  v + SumOver(fs, S \ {f}, field)

\* recalculateTotalStats / getStats: errorCount and warningCount
errorCount(fs) == SumOver(fs, Files, "errors")
warningCount(fs) == SumOver(fs, Files, "warnings")

\* the totals of diagnosticStats after the constructor and after resetStats
resetStats ==
    [totalFiles |-> 0, totalIssues |-> 0, errorCount |-> 0, warningCount |-> 0,
     infoCount |-> 0]

\* totals whose totalIssues leaves the info issues out
recalculateTotalStats_SkipsInfo(fs) ==
    [totalFiles |-> Cardinality({f \in Files : fs[f].present}),
     totalIssues |-> SumOver(fs, Files, "errors") + SumOver(fs, Files, "warnings"),
     errorCount |-> SumOver(fs, Files, "errors"),
     warningCount |-> SumOver(fs, Files, "warnings"),
     infoCount |-> SumOver(fs, Files, "info")]

\* recalculateTotalStats: the totals computed from the entries of fileStats
recalculateTotalStats(fs) ==
    LET errors == SumOver(fs, Files, "errors")
        warnings == SumOver(fs, Files, "warnings")
        info == SumOver(fs, Files, "info")
    IN  [totalFiles |-> Cardinality({f \in Files : fs[f].present}),
         totalIssues |-> errors + warnings + info,
         errorCount |-> errors,
         warningCount |-> warnings,
         infoCount |-> info]

\* updateFileStats(filePath, issues): removeFileStats, the new entry, the totals
updateFileStats(fs, f, issues) ==
    LET removed == [fs EXCEPT ![f] = NoStats]
        set == [removed EXCEPT ![f] = StatsOf(issues)]
    IN  <<set, recalculateTotalStats(set)>>

\* removeFileStats(filePath): the entry deleted, the totals recalculated
removeFileStats(fs, f) ==
    LET removed == [fs EXCEPT ![f] = NoStats]
    IN  <<removed, recalculateTotalStats(removed)>>

\* vscode.DiagnosticSeverity
SeverityError == 0
SeverityWarning == 1
SeverityInformation == 2
SeverityHint == 3

\* mapSeverity(issue.severity)
mapSeverity(severity) ==
    CASE severity = "error"   -> SeverityError
      [] severity = "warning" -> SeverityWarning
      [] severity = "info"    -> SeverityInformation
      [] OTHER                -> SeverityWarning

\* mapDiagnosticSeverityToString(severity)
mapDiagnosticSeverityToString(severity) ==
    CASE severity = SeverityError   -> "error"
      [] severity = SeverityWarning -> "warning"
      [] severity \in {SeverityInformation, SeverityHint} -> "info"
      [] OTHER                      -> "warning"

\* convertIssuesToDiagnostics: the severities of the diagnostics
convertIssuesToDiagnostics(issues) ==
    [i \in 1..Len(issues) |-> mapSeverity(issues[i])]

\* convertDiagnosticsToIssues: `diagnostic.severity || DiagnosticSeverity.Warning`
\* takes the severity 0 for a missing one
convertDiagnosticsToIssues(diagnostics) ==
    [i \in 1..Len(diagnostics) |->
        mapDiagnosticSeverityToString(
            IF diagnostics[i] = 0 THEN SeverityWarning ELSE diagnostics[i])]

\* the collection holds, for a diagnostic, the severity of the issue it was
\* made from: the diagnostics of an entry, and the entry of diagnostics
StoredDiagnostics(entry) == convertIssuesToDiagnostics(entry.issues)
StoredAs(diagnostics) ==
    [i \in 1..Len(diagnostics) |->
        CHOOSE sev \in {"error", "warning", "info"} :
            mapSeverity(sev) = diagnostics[i]]

\* a setDiagnostics that adds to the issues already stored
setDiagnostics_Merges(coll, fs, f, issues) ==
    LET stats == updateFileStats(fs, f, coll[f].issues \o issues)
    IN  <<[coll EXCEPT ![f] = [present |-> TRUE, issues |-> @.issues \o issues]],
          stats[1], stats[2]>>

\* DiagnosticProvider.setDiagnostics: <<collection, fileStats, totals>>
\* afterwards
setDiagnostics(coll, fs, f, issues) ==
    LET stats == updateFileStats(fs, f, issues)
    IN  <<[coll EXCEPT ![f] = [present |-> TRUE, issues |-> issues]],
          stats[1], stats[2]>>

\* DiagnosticProvider.addDiagnostics: the new diagnostics behind the existing
\* ones, the statistics from the combined diagnostics converted back
addDiagnostics(coll, fs, f, issues) ==
    LET existingDiagnostics ==
            IF coll[f].present THEN StoredDiagnostics(coll[f]) ELSE <<>>
        combinedDiagnostics ==
            existingDiagnostics \o convertIssuesToDiagnostics(issues)
        stats == updateFileStats(fs, f,
                                 convertDiagnosticsToIssues(combinedDiagnostics))
    IN  <<[coll EXCEPT ![f] = [present |-> TRUE,
                               issues |-> StoredAs(combinedDiagnostics)]],
          stats[1], stats[2]>>

clearDiagnostics_KeepsEntry(coll, fs, f) ==
    <<coll, removeFileStats(fs, f)[1], removeFileStats(fs, f)[2]>>

\* DiagnosticProvider.clearDiagnostics
clearDiagnostics(coll, fs, f) ==
    <<[coll EXCEPT ![f] = NoEntry], removeFileStats(fs, f)[1],
      removeFileStats(fs, f)[2]>>

clearAllDiagnostics_StatsOnly(coll, fs) ==
    <<coll, [f \in Files |-> NoStats], resetStats>>

\* DiagnosticProvider.clearAllDiagnostics
clearAllDiagnostics(coll, fs) ==
    <<[f \in Files |-> NoEntry], [f \in Files |-> NoStats], resetStats>>

-----------------------------------------------------------------------------
(* The linting queue: addToQueue and the synchronous head of processQueue *)

Min(a, b) == IF a <= b THEN a ELSE b

Range(s) == {s[i] : i \in 1..Len(s)}

RECURSIVE GCD(_, _)
GCD(a, b) == IF b = 0 THEN a ELSE GCD(b, a % b)

\* the number a / b of JavaScript for naturals a and b, as a fraction in lowest
\* terms; 0 / 0 is NaN and a / 0 is Infinity, written with the denominator 0
Quotient(a, b) ==
    IF b = 0 THEN [num |-> IF a = 0 THEN 0 ELSE 1, den |-> 0]
    ELSE [num |-> a \div GCD(a, b), den |-> b \div GCD(a, b)]

Item(f, p) == [uri |-> f, priority |-> p]

InQueue(q, f) == \E i \in 1..Len(q) : q[i].uri = f

RemoveExisting_Keep(q, f) == q

\* addToQueue: this.lintingQueue.filter(item => item.uri.fsPath !== uri.fsPath)
RemoveExisting(q, f) == SelectSeq(q, LAMBDA it : it.uri # f)

\* an insertion that goes ahead of the items of equal priority
RECURSIVE InsertByPriority_BeforeEquals(_, _)
InsertByPriority_BeforeEquals(sorted, it) ==
    IF sorted = <<>> THEN <<it>>
    ELSE IF Head(sorted).priority > it.priority
         THEN <<Head(sorted)>> \o InsertByPriority_BeforeEquals(Tail(sorted), it)
         ELSE <<it>> \o sorted

\* one insertion of a stable sort by descending priority: after every item whose
\* priority is at least as high
RECURSIVE InsertByPriority(_, _)
InsertByPriority(sorted, it) ==
    IF sorted = <<>> THEN <<it>>
    ELSE IF Head(sorted).priority >= it.priority
         THEN <<Head(sorted)>> \o InsertByPriority(Tail(sorted), it)
         ELSE <<it>> \o sorted

RECURSIVE StableSort(_)
StableSort(q) ==
    IF q = <<>> THEN <<>>
    ELSE InsertByPriority(StableSort(SubSeq(q, 1, Len(q) - 1)), q[Len(q)])

sortByPriority_Unsorted(q) == q

\* addToQueue: this.lintingQueue.sort((a, b) => b.priority - a.priority); the
\* sort of the engine is stable. The timestamp of an item is never read.
sortByPriority(q) == StableSort(q)

\* What one run-to-completion step works on: the queue, the flag, the activations,
\* and the record of what the step did.
Core(q, proc, act) ==
    [q |-> q, proc |-> proc, act |-> act,
     enq |-> <<>>, batch |-> <<>>, dispatch |-> <<>>, replaced |-> {}]

\* a draw that takes the whole queue
drawCount_All(len) == len

\* this.lintingQueue.splice(0, batchSize): the number of items removed
drawCount(len) == Min(batchSize, len)

\* processQueue up to its first await: the guard, the flag, the batch draw and the
\* call of lintSingleFile for the first item. `awaited`: the caller awaits it.
processQueue(C, awaited) ==
    IF C.proc \/ C.q = <<>> THEN C
    ELSE LET n == drawCount(Len(C.q))
             batch == SubSeq(C.q, 1, n)
             kind == DispatchKind(batch[1].uri, linters)
         IN  [C EXCEPT
                !.proc = TRUE,
                !.q = SubSeq(C.q, n + 1, Len(C.q)),
                !.act = Append(@, [batch |-> batch, cur |-> kind,
                                   awaited |-> awaited]),
                !.batch = batch,
                !.dispatch = IF kind = "nolinter" THEN @ ELSE Append(@, batch[1].uri)]

\* addToQueue(uri, priority)
addToQueue(C, f, p) ==
    LET q1 == sortByPriority(Append(RemoveExisting(C.q, f), Item(f, p)))
        C1 == [C EXCEPT !.q = q1, !.enq = Append(@, Item(f, p)),
                        !.replaced = @ \cup {it \in Range(C.q) : it.uri = f}]
    IN  IF ~C1.proc THEN processQueue(C1, FALSE) ELSE C1

\* processFilesWithProgress: for (const file of files) this.addToQueue(file, 1)
RECURSIVE addAllToQueue(_, _)
addAllToQueue(C, files) ==
    IF files = <<>> THEN C
    ELSE addAllToQueue(addToQueue(C, Head(files), LowPriority), Tail(files))

-----------------------------------------------------------------------------
(* The host event loop *)

\* a microtask is runnable: the continuation of an await that is already settled
\* (or activate() has not yet reached its first wait for the host)
MicrotaskReady ==
    \/ boot.pc # "done"
    \/ ws.pc \in {"loop", "finish"}
    \/ \E i \in 1..Len(active) : active[i].cur # "io"

\* the host can run a macrotask: a timer, an I/O callback, a command, an event
HostFree == ~MicrotaskReady

InFlight == Len(active) + timers

RemoveAt(s, i) == SubSeq(s, 1, i - 1) \o SubSeq(s, i + 1, Len(s))

\* last (registry: the registry a dispose call found);
\* last: the operation of the step and its file; the queue entries the step
\* removed without drawing them; for a settled lint, whether it failed and the
\* issues it returned ("skipped": the file had no linter); whether the
\* collection held issues (of that file, or of any file for stopLinting) before
\* the step
NoEvent == [op |-> "none", file |-> "", replaced |-> {}, failed |-> FALSE,
            hadIssues |-> FALSE, issues |-> <<>>, registry |-> {}]

Event(op, f, C) == [NoEvent EXCEPT !.op = op, !.file = f, !.replaced = C.replaced]

\* trace (queue harness): the addToQueue calls, the dispatches, the last batch drawn
Traced(C) ==
    IF trace.on
    THEN [trace EXCEPT !.enq = @ \o C.enq,
                       !.disp = @ \o C.dispatch,
                       !.batch = IF C.batch = <<>> THEN @ ELSE C.batch]
    ELSE trace

-----------------------------------------------------------------------------
(* State after construction and initialization *)

\* loadConfiguration() of a workspace that sets no exclude patterns and leaves
\* the file limit at its default
DefaultConfiguration == [excludePatterns |-> <<>>, maxFiles |-> defaultMaxFiles]

\* configCache = null as the code reads it: `configCache?.excludePatterns` no
\* pattern, `configCache?.maxFiles || 1000` the default limit
NullConfiguration == [excludePatterns |-> <<>>, maxFiles |-> 0]

\* an initialize() that registers the adapters although it fails
initialize_RegistersBeforeFailing(ok, reg, patterns, cacheTime, clock, file, cfg) ==
    LET r == loadGitignorePatterns(patterns, cacheTime, clock, file)
    IN  IF ok
        THEN [isInitialized |-> TRUE, linters |-> reg \cup RegisteredLinters,
              patterns |-> r.patterns, cacheTime |-> r.cacheTime,
              config |-> DefaultConfiguration, failed |-> FALSE]
        ELSE [isInitialized |-> FALSE, linters |-> reg \cup RegisteredLinters,
              patterns |-> patterns, cacheTime |-> cacheTime,
              config |-> cfg, failed |-> TRUE]

\* initialize(): ok, the configuration loaded, the adapters registered, the
\* ignore file loaded and isInitialized set; not ok (loadConfiguration or a
\* constructor of an adapter throws), the catch shows the error (failed) and
\* the fields stay as they were
initialize(ok, reg, patterns, cacheTime, clock, file, cfg) ==
    LET r == loadGitignorePatterns(patterns, cacheTime, clock, file)
    IN  IF ok
        THEN [isInitialized |-> TRUE, linters |-> reg \cup RegisteredLinters,
              patterns |-> r.patterns, cacheTime |-> r.cacheTime,
              config |-> DefaultConfiguration, failed |-> FALSE]
        ELSE [isInitialized |-> FALSE, linters |-> reg,
              patterns |-> patterns, cacheTime |-> cacheTime,
              config |-> cfg, failed |-> TRUE]

\* a workspace without .gitignore
EnvDefault ==
    /\ configCache = DefaultConfiguration
    /\ gitignoreFile = NoIgnoreFile
    /\ now = gitignoreCacheDuration

\* no function is being applied on its own
NoProbe == [patterns |-> <<>>, filePath |-> <<>>, applied |-> FALSE,
            result |-> FALSE]

\* activate() has returned: initialize() ran once
NoBoot == [pc |-> "done", inits |-> <<>>, loads |-> 1, constructed |-> 1]

\* the WorkspaceLinter of src/workspaceLinter.ts as its constructor leaves it:
\* not linting, no setInterval timer, no lintWorkspace under way, no
\* diagnostics published; op: what the last step on it was
NoWorkspaceLinter == [isLinting |-> FALSE, intervals |-> 0, scans |-> <<>>,
                      diagnostics |-> {}, op |-> "none"]

\* the fields as the constructor leaves them, the sink and the host
InitFields ==
    /\ isLinting = FALSE
    /\ lintingQueue = <<>>
    /\ isProcessingQueue = FALSE
    /\ lintingStats = [filesProcessed |-> 0, totalTime |-> 0,
                       averageTimePerFile |-> Quotient(0, 1),
                       errorsFound |-> 0, warningsFound |-> 0]
    /\ diagnosticCollection = [f \in Files |-> NoEntry]
    /\ fileStats = [f \in Files |-> NoStats]
    /\ diagnosticStats = resetStats
    /\ active = <<>>
    /\ timers = 0
    /\ ws = [pc |-> "idle", files |-> <<>>, base |-> 0, turns |-> 0,
             cancel |-> "no", startTime |-> 0]
    /\ fileChangeTimeout = "none"
    /\ stopped = FALSE

\* initialize() called by the constructor, with its outcome
Initialized(ok) ==
    LET I == initialize(ok, {}, <<>>, 0, now, gitignoreFile, configCache)
    IN  /\ isInitialized = I.isInitialized
        /\ linters = I.linters
        /\ gitignorePatterns = I.patterns
        /\ gitignoreCacheTime = I.cacheTime
        /\ last = IF I.failed
                  THEN [NoEvent EXCEPT !.op = "initialize", !.failed = TRUE]
                  ELSE NoEvent

\* initialize() without failure: the linters registered and the ignore file
\* loaded
InitReady == Initialized(TRUE)

\* the WorkspaceLinter constructed and initialized
InitProgram ==
    /\ InitFields
    /\ InitReady
    /\ wl = NoWorkspaceLinter
    /\ boot = NoBoot
    /\ probe = NoProbe

InitCommon == EnvDefault /\ InitProgram

Init == InitCommon /\ trace = [on |-> FALSE, enq |-> <<>>, disp |-> <<>>,
                               batch |-> <<>>]

-----------------------------------------------------------------------------
(* WorkspaceLinter operations *)

\* a lintFile that enqueues at the priority of the workspace scan
requestPriority_Low == LowPriority

\* lintFile: this.addToQueue(uri, 100)
requestPriority == HighPriority

\* lintFile(uri), called in a macrotask of the host
lintFile(f) ==
    /\ HostFree
    /\ isProcessingQueue \/ InFlight < MaxInFlight
    /\ LET C0 == Core(lintingQueue, isProcessingQueue, active)
           C == IF shouldLintFile(f, linters)
                THEN addToQueue(C0, f, requestPriority) ELSE C0
       IN  /\ lintingQueue' = C.q
           /\ isProcessingQueue' = C.proc
           /\ active' = C.act
           /\ last' = Event("lintFile", f, C)
           /\ trace' = Traced(C)
    /\ UNCHANGED <<isLinting, linters, lintingStats, diagnosticCollection,
                   fileStats, diagnosticStats, timers, ws, stopped, configCache, isInitialized, wl, probe, boot,
                   gitignoreFile,
                   now, ignoreVars>>

\* lintFile(uri) on a save or open event, or by the autolinter.lintCurrentFile
\* command
LintFile(f) ==
    /\ lintFile(f)
    /\ UNCHANGED fileChangeTimeout

\* lintWorkspace() up to `await vscode.workspace.findFiles(...)`: the ignore
\* patterns are refreshed, discovery is started
BeginWorkspaceRunFrom(patterns, cacheTime) ==
    /\ ws.pc = "idle"
    /\ lintingStats.filesProcessed < MaxFilesProcessed
    /\ ws' = [pc |-> "discover", files |-> <<>>,
              base |-> lintingStats.filesProcessed, turns |-> 0, cancel |-> "no",
              startTime |-> now]
    /\ LET r == loadGitignorePatterns(patterns, cacheTime, now, gitignoreFile)
       IN  gitignorePatterns' = r.patterns /\ gitignoreCacheTime' = r.cacheTime

BeginWorkspaceRun == BeginWorkspaceRunFrom(gitignorePatterns, gitignoreCacheTime)

\* a check that never finds the orchestrator linting
alreadyLinting_Never(flag) == FALSE

\* startLinting: if (this.isLinting) return
alreadyLinting(flag) == flag

\* startLinting(): initialize() first when not initialized; then a no-op while
\* linting, else marks active and lints the workspace
StartLinting ==
    /\ HostFree
    /\ \E ok \in (IF isInitialized THEN {TRUE} ELSE BOOLEAN) :
         LET I == IF isInitialized
                  THEN [isInitialized |-> TRUE, linters |-> linters,
                        patterns |-> gitignorePatterns,
                        cacheTime |-> gitignoreCacheTime,
                        config |-> configCache, failed |-> FALSE]
                  ELSE initialize(ok, linters, gitignorePatterns,
                                  gitignoreCacheTime, now, gitignoreFile,
                                  configCache)
         IN  /\ isInitialized' = I.isInitialized
             /\ linters' = I.linters
             /\ configCache' = I.config
             /\ IF alreadyLinting(isLinting)
                THEN /\ gitignorePatterns' = I.patterns
                     /\ gitignoreCacheTime' = I.cacheTime
                     /\ UNCHANGED <<isLinting, ws, stopped>>
                ELSE /\ BeginWorkspaceRunFrom(I.patterns, I.cacheTime)
                     /\ isLinting' = TRUE
                     /\ stopped' = FALSE
             /\ last' = [NoEvent EXCEPT !.op = "startLinting",
                                        !.failed = I.failed]
    /\ UNCHANGED <<lintingQueue, isProcessingQueue, lintingStats,
                   diagnosticCollection, fileStats, diagnosticStats, active, timers, trace,
                   gitignoreFile, now, fileChangeTimeout, wl, probe,
                   boot>>

\* the autolinter.lintWorkspace command
LintWorkspace ==
    /\ HostFree
    /\ BeginWorkspaceRun
    /\ last' = NoEvent
    /\ UNCHANGED <<isLinting, linters, lintingQueue, isProcessingQueue,
                   lintingStats, diagnosticCollection, fileStats, diagnosticStats, active, timers,
                   stopped, trace, hostVars>>

\* the order in which findFiles enumerates the workspace
FileOrder == <<"a.css", "b.py", "c.scss", "d.pyw", "e.ts", "p/out/q/x.css">>

\* discoverFiles(): the files present, filtered by shouldLintFile
discoverFiles(present) ==
    SelectSeq(FileOrder, LAMBDA f : f \in present /\ shouldLintFile(f, linters))

\* the while condition of processFilesWithProgress followed by
\* `await this.processQueue()`: where the run continues
LoopTurn(C) ==
    IF C.q = <<>> \/ ws.cancel = "set" THEN [pc |-> "finish", C |-> C]
    ELSE IF C.proc THEN [pc |-> "loop", C |-> C]
         ELSE [pc |-> "awaitBatch", C |-> processQueue(C, TRUE)]

\* `this.configCache?.maxFiles || 1000`
fileLimit(cfg) == IF cfg.maxFiles = 0 THEN defaultMaxFiles ELSE cfg.maxFiles

\* processFilesWithProgress(files) up to its first await: withProgress calls the
\* task at once, the token not yet cancelled; every file is added to the queue
\* and the loop is entered
EnterProgress(files, op) ==
    /\ isProcessingQueue \/ InFlight < MaxInFlight
    /\ LET C0 == Core(lintingQueue, isProcessingQueue, active)
           T == LoopTurn(addAllToQueue(C0, files))
       IN  /\ ws' = [ws EXCEPT !.pc = T.pc, !.files = files]
           /\ lintingQueue' = T.C.q
           /\ isProcessingQueue' = T.C.proc
           /\ active' = T.C.act
           /\ last' = Event(op, "", T.C)
           /\ trace' = Traced(T.C)

\* findFiles returned with the files of the set S that exist: the rest of
\* lintWorkspace up to its next await, the file-limit prompt or the first await
\* of processFilesWithProgress
WsDiscoveredFrom(S) ==
    /\ ws.pc = "discover"
    /\ HostFree
    /\ \E present \in SUBSET S :
         LET files == discoverFiles(present)
         IN  IF files = <<>>
             THEN /\ ws' = [ws EXCEPT !.pc = "idle", !.startTime = 0]
                  /\ last' = [NoEvent EXCEPT !.op = "discovered"]
                  /\ UNCHANGED <<lintingQueue, isProcessingQueue, active, trace>>
             ELSE IF Len(files) > fileLimit(configCache)
             THEN /\ ws' = [ws EXCEPT !.pc = "prompt", !.files = files]
                  /\ last' = [NoEvent EXCEPT !.op = "prompt"]
                  /\ UNCHANGED <<lintingQueue, isProcessingQueue, active, trace>>
             ELSE EnterProgress(files, "discovered")
    /\ UNCHANGED <<isLinting, linters, lintingStats, diagnosticCollection,
                   fileStats, diagnosticStats, timers, stopped, hostVars, ignoreVars>>

WsDiscovered == WsDiscoveredFrom(EventFiles)

\* a file-limit prompt answered with 'Cancel' that goes on all the same
promptOutcome_IgnoresCancel(files, response) ==
    [go |-> TRUE, files |-> files]

\* the answer to the file-limit prompt: whether the run goes on, and with which
\* files; 'Lint First 1000' is files.splice(1000)
promptOutcome(files, response) ==
    IF response = "Cancel" THEN [go |-> FALSE, files |-> files]
    ELSE IF response = "Lint First 1000"
         THEN [go |-> TRUE, files |-> SubSeq(files, 1, Min(lintFirstCount, Len(files)))]
         ELSE [go |-> TRUE, files |-> files]

\* the buttons of the prompt; "undefined" is the prompt dismissed
PromptResponses == {"Yes", "Lint First 1000", "Cancel", "undefined"}

\* showWarningMessage returned: lintWorkspace returns on 'Cancel' and otherwise
\* goes on to processFilesWithProgress
WsPrompt(response) ==
    /\ ws.pc = "prompt"
    /\ HostFree
    /\ LET o == promptOutcome(ws.files, response)
       IN  IF o.go
           THEN EnterProgress(o.files, response)
           ELSE /\ ws' = [ws EXCEPT !.pc = "idle", !.files = <<>>,
                                     !.startTime = 0]
                /\ last' = [NoEvent EXCEPT !.op = response]
                /\ UNCHANGED <<lintingQueue, isProcessingQueue, active, trace>>
    /\ UNCHANGED <<isLinting, linters, lintingStats, diagnosticCollection,
                   fileStats, diagnosticStats, timers, stopped, hostVars, ignoreVars>>

\* the body of the while loop after `await this.processQueue()` returned, and
\* the next evaluation of its condition
WsLoop ==
    /\ ws.pc = "loop"
    /\ LET T == LoopTurn(Core(lintingQueue, isProcessingQueue, active))
       IN  /\ ws' = [ws EXCEPT !.pc = T.pc,
                            !.turns = IF T.pc = "loop" THEN 1 - @ ELSE 0]
           /\ lintingQueue' = T.C.q
           /\ isProcessingQueue' = T.C.proc
           /\ active' = T.C.act
           /\ last' = NoEvent
           /\ trace' = Traced(T.C)
    /\ UNCHANGED <<isLinting, linters, lintingStats, diagnosticCollection,
                   fileStats, diagnosticStats, timers, stopped, hostVars, ignoreVars>>

\* an update that takes the average before it adds the run
updateLintingStats_StaleAverage(st, n, t) ==
    [filesProcessed |-> st.filesProcessed + n,
     totalTime |-> st.totalTime + t,
     averageTimePerFile |-> Quotient(st.totalTime, st.filesProcessed),
     errorsFound |-> errorCount(fileStats),
     warningsFound |-> warningCount(fileStats)]

\* updateLintingStats(filesProcessed, totalTime): the counts and times added up,
\* the average recomputed, the error and warning counts read from the
\* DiagnosticProvider; lastLintTime is not part of the model
updateLintingStats(st, n, t) ==
    [filesProcessed |-> st.filesProcessed + n,
     totalTime |-> st.totalTime + t,
     averageTimePerFile |-> Quotient(st.totalTime + t, st.filesProcessed + n),
     errorsFound |-> errorCount(fileStats),
     warningsFound |-> warningCount(fileStats)]

\* processFilesWithProgress returned: lintWorkspace updates the statistics
WsFinish ==
    /\ ws.pc = "finish"
    /\ lintingStats' = updateLintingStats(lintingStats, Len(ws.files),
                                          now - ws.startTime)
    /\ ws' = [ws EXCEPT !.pc = "idle", !.files = <<>>, !.turns = 0,
                         !.startTime = 0,
                         !.cancel = IF @ = "set" THEN "no" ELSE @]
    /\ last' = NoEvent
    /\ UNCHANGED <<isLinting, linters, lintingQueue, isProcessingQueue,
                   diagnosticCollection, fileStats, diagnosticStats, active, timers, stopped, trace,
                   hostVars, ignoreVars>>

\* the outcomes of `await linter.lint(uri)`: issues returned, or a rejection
Outcomes(kind) ==
    IF kind = "nolinter" THEN {[ok |-> TRUE, skip |-> TRUE, issues |-> <<>>]}
    ELSE {[ok |-> TRUE, skip |-> FALSE, issues |-> l] : l \in IssueLists}
         \cup {[ok |-> FALSE, skip |-> FALSE, issues |-> <<>>]}

\* lintSingleFile after the await: publish on success, clear on failure
lintSingleFileSettled(coll, fs, st, f, out) ==
    IF out.skip THEN <<coll, fs, st>>
    ELSE IF out.ok THEN setDiagnostics(coll, fs, f, out.issues)
         ELSE clearDiagnostics(coll, fs, f)

\* a batch that is given up when one of its items fails
restOfBatch_AbortsOnFailure(batch, ok) == IF ok THEN Tail(batch) ELSE <<>>

\* the for loop of processQueue after the lint of an item has settled: the
\* rejection is caught in lintSingleFile, the loop goes on with the next item
restOfBatch(batch, ok) == Tail(batch)

\* a batch end that never finds items left in the queue
moreItems_Never(queue) == FALSE

\* processQueue after its batch: if (this.lintingQueue.length > 0), the drain
\* is continued by a timer
moreItems(queue) == queue # <<>>

\* an activation of processQueue resumes: the lint of its current item settled;
\* it goes on to the next item of the batch, or ends the batch
Resume(i) ==
    /\ i \in 1..Len(active)
    /\ active[i].cur = "io" => HostFree
    /\ LET a == active[i]
           f == a.batch[1].uri
       IN  \E out \in Outcomes(a.cur) :
             LET sink == lintSingleFileSettled(diagnosticCollection, fileStats,
                                               diagnosticStats, f, out)
                 rest == restOfBatch(a.batch, out.ok)
                 more == rest # <<>>
                 nextUri == rest[1].uri
                 nextKind == DispatchKind(nextUri, linters)
                 disp == IF more /\ nextKind # "nolinter" THEN <<nextUri>>
                         ELSE <<>>
             IN  /\ diagnosticCollection' = sink[1]
                 /\ fileStats' = sink[2]
                 /\ diagnosticStats' = sink[3]
                 /\ last' = [NoEvent EXCEPT
                       !.op = IF out.skip THEN "skipped" ELSE "settled",
                       !.file = f,
                       !.failed = ~out.ok,
                       !.issues = out.issues,
                       !.hadIssues = diagnosticCollection[f].issues # <<>>]
                 /\ trace' = IF trace.on THEN [trace EXCEPT !.disp = @ \o disp]
                             ELSE trace
                 /\ IF more
                    THEN /\ active' = [active EXCEPT ![i] =
                                         [a EXCEPT !.batch = rest, !.cur = nextKind]]
                         /\ UNCHANGED <<isProcessingQueue, timers, ws>>
                    ELSE /\ active' = RemoveAt(active, i)
                         /\ IF moreItems(lintingQueue)
                            THEN timers' = timers + 1 /\ UNCHANGED isProcessingQueue
                            ELSE isProcessingQueue' = FALSE /\ UNCHANGED timers
                         /\ ws' = IF a.awaited /\ ws.pc = "awaitBatch"
                                  THEN [ws EXCEPT !.pc = "loop"] ELSE ws
    /\ UNCHANGED <<isLinting, linters, lintingQueue, lintingStats, stopped,
                   hostVars, ignoreVars>>

\* the setTimeout callback of processQueue:
\* this.isProcessingQueue = false; this.processQueue()
TimerFire ==
    /\ timers > 0
    /\ HostFree
    /\ timers' = timers - 1
    /\ LET C == processQueue(Core(lintingQueue, FALSE, active), FALSE)
       IN  /\ lintingQueue' = C.q
           /\ isProcessingQueue' = C.proc
           /\ active' = C.act
           /\ last' = NoEvent
           /\ trace' = Traced(C)
    /\ UNCHANGED <<isLinting, linters, lintingStats, diagnosticCollection,
                   fileStats, diagnosticStats, ws, stopped, hostVars, ignoreVars>>

\* stopLinting(); periodicLintTimer is never set
StopLinting ==
    /\ HostFree
    /\ isLinting' = FALSE
    /\ lintingQueue' = <<>>
    /\ isProcessingQueue' = FALSE
    /\ LET sink == clearAllDiagnostics(diagnosticCollection, fileStats)
       IN  /\ diagnosticCollection' = sink[1]
           /\ fileStats' = sink[2]
           /\ diagnosticStats' = sink[3]
    /\ stopped' = TRUE
    /\ last' = [NoEvent EXCEPT
                   !.op = "stopLinting",
                   !.replaced = Range(lintingQueue),
                   !.hadIssues = \E f \in Files :
                                    diagnosticCollection[f].issues # <<>>]
    /\ UNCHANGED <<linters, lintingStats, active, timers, ws, trace, hostVars,
                   ignoreVars>>

\* whether the adapter has a dispose method: none of the registered ones has
AdapterHasDispose(name) == name \in {}

\* a dispose that leaves the adapters in the registry
clearRegistry_Keeps(reg) == reg

\* dispose: this.linters.clear()
clearRegistry(reg) == {}

\* dispose() on the fields it writes; disposed: the adapters whose dispose() it
\* calls; periodicLintTimer is never set
disposeFields(linting, queue, processing, reg) ==
    [isLinting |-> FALSE,
     lintingQueue |-> <<>>,
     isProcessingQueue |-> FALSE,
     disposed |-> {n \in reg : AdapterHasDispose(n)},
     linters |-> clearRegistry(reg)]

\* dispose()
Dispose ==
    /\ HostFree
    /\ LET d == disposeFields(isLinting, lintingQueue, isProcessingQueue, linters)
       IN  /\ isLinting' = d.isLinting
           /\ lintingQueue' = d.lintingQueue
           /\ isProcessingQueue' = d.isProcessingQueue
           /\ linters' = d.linters
    /\ last' = [NoEvent EXCEPT !.op = "dispose", !.registry = linters]
    /\ UNCHANGED <<lintingStats, diagnosticCollection, fileStats, diagnosticStats, active, timers,
                   ws, stopped, trace, hostVars, ignoreVars>>

Next ==
    \/ \E f \in EventFiles : LintFile(f)
    \/ StartLinting
    \/ StopLinting
    \/ LintWorkspace
    \/ WsDiscovered
    \/ WsLoop
    \/ WsFinish
    \/ \E i \in 1..MaxInFlight : Resume(i)
    \/ TimerFire
    \/ Dispose

Spec == Init /\ [][Next]_vars

\* The host runs every runnable continuation, timer and I/O callback; adapters
\* return. Commands and editor events are up to the user.
Fairness ==
    /\ WF_vars(WsDiscovered)
    /\ WF_vars(WsLoop)
    /\ WF_vars(WsFinish)
    /\ WF_vars(TimerFire)
    /\ \A i \in 1..MaxInFlight : WF_vars(Resume(i))

FairSpec == Spec /\ Fairness

-----------------------------------------------------------------------------
(* The workspace run with its file-limit prompt and its cancel button *)

\* the pcs at which the progress notification of processFilesWithProgress is shown
InProgress == ws.pc \in {"loop", "awaitBatch", "finish"}

\* the user clicks Cancel on the progress notification (in the UI process): the
\* request is on its way to the extension host
CancelClick ==
    /\ InProgress
    /\ ws.cancel = "no"
    /\ ws' = [ws EXCEPT !.cancel = "clicked"]
    /\ last' = [NoEvent EXCEPT !.op = "cancelClick"]
    /\ UNCHANGED <<isLinting, linters, lintingQueue, isProcessingQueue,
                   lintingStats, diagnosticCollection, fileStats, diagnosticStats, active, timers,
                   stopped, trace, hostVars, ignoreVars>>

\* the host delivers the cancel request: token.isCancellationRequested becomes
\* true; a request for a progress that has ended is dropped
CancelDeliver ==
    /\ ws.cancel = "clicked"
    /\ HostFree
    /\ ws' = [ws EXCEPT !.cancel = IF InProgress THEN "set" ELSE "no"]
    /\ last' = [NoEvent EXCEPT !.op = "cancelDeliver"]
    /\ UNCHANGED <<isLinting, linters, lintingQueue, isProcessingQueue,
                   lintingStats, diagnosticCollection, fileStats, diagnosticStats, active, timers,
                   stopped, trace, hostVars, ignoreVars>>

\* the configured values of autolinter.maxFiles
ConfiguredMaxFiles == {1, defaultMaxFiles}

InitW ==
    /\ configCache \in {[excludePatterns |-> <<>>, maxFiles |-> m] :
                           m \in ConfiguredMaxFiles}
    /\ gitignoreFile = NoIgnoreFile
    /\ now = gitignoreCacheDuration
    /\ InitProgram
    /\ trace = [on |-> FALSE, enq |-> <<>>, disp |-> <<>>, batch |-> <<>>]

NextW ==
    \/ \E f \in EventFiles : LintFile(f)
    \/ LintWorkspace
    \/ WsDiscovered
    \/ \E response \in PromptResponses : WsPrompt(response)
    \/ WsLoop
    \/ WsFinish
    \/ \E i \in 1..MaxInFlight : Resume(i)
    \/ TimerFire
    \/ CancelClick
    \/ CancelDeliver

SpecW == InitW /\ [][NextW]_vars

FairSpecW == SpecW /\ Fairness /\ WF_vars(CancelDeliver)

-----------------------------------------------------------------------------
(* The ignore file harness: the clock runs, the .gitignore is edited,          *)
(* loadGitignorePatterns is called                                            *)

IgnoreFile(lines) == [exists |-> TRUE, readable |-> TRUE, lines |-> lines]
\* a .gitignore that readFileSync cannot read
UnreadableIgnoreFile == [exists |-> TRUE, readable |-> FALSE, lines |-> <<>>]

\* the lines of three .gitignore files, as split('\n') yields them
BuildIgnore == <<<<"b", "u", "i", "l", "d", "/">>>>
CssIgnore == <<<<"#", " ", "g", "e", "n", "e", "r", "a", "t", "e", "d">>, <<>>, <<" ", " ", "*", ".", "c", "s", "s", " ", "\r">>>>
OutIgnore == <<<<"*", "*", "/", "o", "u", "t", "/", "*", "*">>, <<"b", ".", "p", "y">>>>

IgnoreFileStates ==
    {NoIgnoreFile, UnreadableIgnoreFile, IgnoreFile(BuildIgnore),
     IgnoreFile(CssIgnore), IgnoreFile(OutIgnore)}

\* the ages of the cache the clock is advanced to: just loaded, just before the
\* expiry, at the expiry, just after it
CacheAges == {1, gitignoreCacheDuration - 1, gitignoreCacheDuration,
              gitignoreCacheDuration + 1}

InitG ==
    /\ configCache = [excludePatterns |-> <<>>, maxFiles |-> defaultMaxFiles]
    /\ gitignoreFile = IgnoreFile(BuildIgnore)
    /\ now = gitignoreCacheDuration
    /\ InitProgram
    /\ trace = [on |-> FALSE, enq |-> <<>>, disp |-> <<>>, batch |-> <<>>]

\* time passes: Date.now() is `age` past the cache time
Tick(age) ==
    /\ gitignoreCacheTime + age > now
    /\ gitignoreCacheTime + age <= gitignoreCacheDuration * MaxCachePeriods
    /\ now' = gitignoreCacheTime + age
    /\ last' = [NoEvent EXCEPT !.op = "tick"]
    /\ UNCHANGED <<isLinting, linters, lintingQueue, isProcessingQueue,
                   lintingStats, diagnosticCollection, fileStats, diagnosticStats, active, timers,
                   ws, stopped, trace, configCache, isInitialized, wl, probe, boot,
                   gitignoreFile,
                   fileChangeTimeout, ignoreVars>>

\* the user saves, deletes or locks the .gitignore
EditIgnoreFile(file) ==
    /\ file # gitignoreFile
    /\ gitignoreFile' = file
    /\ last' = [NoEvent EXCEPT !.op = "edit"]
    /\ UNCHANGED <<isLinting, linters, lintingQueue, isProcessingQueue,
                   lintingStats, diagnosticCollection, fileStats, diagnosticStats, active, timers,
                   ws, stopped, trace, configCache, isInitialized, wl, probe, boot,
                   now, fileChangeTimeout,
                   ignoreVars>>

\* await this.loadGitignorePatterns(), as lintWorkspace calls it
LoadIgnore ==
    /\ LET r == loadGitignorePatterns(gitignorePatterns, gitignoreCacheTime, now,
                                      gitignoreFile)
       IN  /\ gitignorePatterns' = r.patterns
           /\ gitignoreCacheTime' = r.cacheTime
           /\ last' = [NoEvent EXCEPT !.op = r.how, !.failed = (r.how = "failed")]
    /\ UNCHANGED <<isLinting, linters, lintingQueue, isProcessingQueue,
                   lintingStats, diagnosticCollection, fileStats, diagnosticStats, active, timers,
                   ws, stopped, trace, hostVars>>

NextG ==
    \/ \E age \in CacheAges : Tick(age)
    \/ \E file \in IgnoreFileStates : EditIgnoreFile(file)
    \/ LoadIgnore

SpecG == InitG /\ [][NextG]_vars

-----------------------------------------------------------------------------
(* Discovery in a workspace with an ignore file and an exclude pattern *)

\* the exclude pattern '**/out/**' of the default configuration
OutPattern == <<"*", "*", "/", "o", "u", "t", "/", "*", "*">>
\* a .gitignore naming one file
ScssIgnore == <<<<"c", ".", "s", "c", "s", "s">>>>

\* the files findFiles may return: one in a directory below out/
DiscoveryFiles == {"a.css", "b.py", "c.scss", "e.ts", "p/out/q/x.css"}

InitD ==
    /\ configCache = [excludePatterns |-> <<OutPattern>>,
                      maxFiles |-> defaultMaxFiles]
    /\ gitignoreFile = IgnoreFile(ScssIgnore)
    /\ now = gitignoreCacheDuration
    /\ InitProgram
    /\ trace = [on |-> FALSE, enq |-> <<>>, disp |-> <<>>, batch |-> <<>>]

WsDiscoveredD == WsDiscoveredFrom(DiscoveryFiles)

NextD ==
    \/ \E f \in EventFiles : LintFile(f)
    \/ LintWorkspace
    \/ WsDiscoveredD
    \/ WsLoop
    \/ WsFinish
    \/ \E i \in 1..MaxInFlight : Resume(i)
    \/ TimerFire

SpecD == InitD /\ [][NextD]_vars

-----------------------------------------------------------------------------
(* The file system watcher of extensions.ts *)

\* watcher.onDidCreate / onDidChange: handleFileChange(uri) clears the pending
\* timeout and sets a new one for uri
FileEvent(f) ==
    /\ HostFree
    /\ fileChangeTimeout' = f
    /\ last' = [NoEvent EXCEPT !.op = "fileEvent", !.file = f]
    /\ UNCHANGED <<isLinting, linters, lintingQueue, isProcessingQueue,
                   lintingStats, diagnosticCollection, fileStats, diagnosticStats, active, timers,
                   ws, stopped, trace, configCache, isInitialized, wl, probe, boot,
                   gitignoreFile, now,
                   ignoreVars>>

\* the debounce timeout fires: await workspaceLinter.lintFile(uri)
DebounceFire ==
    /\ fileChangeTimeout # "none"
    /\ lintFile(fileChangeTimeout)
    /\ fileChangeTimeout' = "none"

\* watcher.onDidDelete: diagnosticProvider.clearDiagnostics(uri)
FileDeleted(f) ==
    /\ HostFree
    /\ LET sink == clearDiagnostics(diagnosticCollection, fileStats, f)
       IN  /\ diagnosticCollection' = sink[1]
           /\ fileStats' = sink[2]
           /\ diagnosticStats' = sink[3]
    /\ last' = [NoEvent EXCEPT !.op = "fileDeleted", !.file = f]
    /\ UNCHANGED <<isLinting, linters, lintingQueue, isProcessingQueue,
                   lintingStats, active, timers, ws, stopped, trace, hostVars,
                   ignoreVars>>

NextE ==
    \/ \E f \in EventFiles : FileEvent(f)
    \/ DebounceFire
    \/ \E f \in EventFiles : FileDeleted(f)
    \/ \E i \in 1..MaxInFlight : Resume(i)
    \/ TimerFire

SpecE == Init /\ [][NextE]_vars

-----------------------------------------------------------------------------
(* The statistics harness: updateLintingStats called as lintWorkspace calls it, *)
(* with at least one file, while single-file lints publish to the sink         *)

\* the times a workspace run may take, in ms
RunTimes == {0, 1, 7, 10}

\* the numbers of files of a run: lintWorkspace returns before the update when
\* discovery yields no file
RunSizes == {1, 2, 3}

\* this.updateLintingStats(files.length, endTime - startTime)
UpdateStats(n, t) ==
    /\ lintingStats.filesProcessed < MaxStatsFiles
    /\ lintingStats' = updateLintingStats(lintingStats, n, t)
    /\ last' = [NoEvent EXCEPT !.op = "updateLintingStats"]
    /\ UNCHANGED <<isLinting, linters, lintingQueue, isProcessingQueue,
                   diagnosticCollection, fileStats, diagnosticStats, active, timers, ws, stopped,
                   trace, hostVars, ignoreVars>>

NextS ==
    \/ \E n \in RunSizes, t \in RunTimes : UpdateStats(n, t)
    \/ \E f \in {"a.css"} : LintFile(f)
    \/ \E i \in 1..MaxInFlight : Resume(i)

SpecS == Init /\ [][NextS]_vars

-----------------------------------------------------------------------------
(* lintFile in a workspace where b.py and d.pyw pass the eligibility check,    *)
(* a.css matches an exclude pattern, c.scss an ignore pattern, and e.ts has an *)
(* extension no adapter declares                                              *)

\* the exclude pattern '*.css'
CssPattern == <<"*", ".", "c", "s", "s">>

LintFileFiles == {"a.css", "b.py", "c.scss", "d.pyw", "e.ts"}

InitF ==
    /\ configCache = [excludePatterns |-> <<CssPattern>>,
                      maxFiles |-> defaultMaxFiles]
    /\ gitignoreFile = IgnoreFile(ScssIgnore)
    /\ now = gitignoreCacheDuration
    /\ InitProgram
    /\ trace = [on |-> FALSE, enq |-> <<>>, disp |-> <<>>, batch |-> <<>>]

NextF ==
    \/ \E f \in LintFileFiles : LintFile(f)
    \/ \E i \in 1..MaxInFlight : Resume(i)
    \/ TimerFire

SpecF == InitF /\ [][NextF]_vars

-----------------------------------------------------------------------------
(* The queue harness: addToQueue called directly, the drain left to run *)

QueueFiles == {"a.css", "b.py", "c.scss", "d.pyw"}
\* the priority each harness file is enqueued with
TestPriority(f) ==
    CASE f = "b.py"   -> HighPriority
      [] f = "c.scss" -> 50
      [] OTHER        -> LowPriority

InitQ == InitCommon /\ trace = [on |-> TRUE, enq |-> <<>>, disp |-> <<>>,
                                batch |-> <<>>]

\* addToQueue(uri, priority), in the turn of the previous call or a later one
EnqueueUpTo(f, p, max) ==
    /\ Len(trace.enq) < max
    /\ isProcessingQueue \/ InFlight < MaxInFlight
    /\ LET C == addToQueue(Core(lintingQueue, isProcessingQueue, active), f, p)
       IN  /\ lintingQueue' = C.q
           /\ isProcessingQueue' = C.proc
           /\ active' = C.act
           /\ last' = Event("addToQueue", f, C)
           /\ trace' = Traced(C)
    /\ UNCHANGED <<isLinting, linters, lintingStats, diagnosticCollection,
                   fileStats, diagnosticStats, timers, ws, stopped, hostVars, ignoreVars>>

EnqueueAt(f, p) == EnqueueUpTo(f, p, MaxEnqueues)

Enqueue(f) == EnqueueAt(f, TestPriority(f))

NextQ ==
    \/ \E f \in QueueFiles : Enqueue(f)
    \/ \E i \in 1..MaxInFlight : Resume(i)
    \/ TimerFire

SpecQ == InitQ /\ [][NextQ]_vars

\* The same harness with two files of equal priority and one of higher priority
TieFiles == {"a.css", "b.py", "c.scss"}
TiePriority(f) == IF f = "b.py" THEN HighPriority ELSE LowPriority

EnqueueTie(f) == EnqueueAt(f, TiePriority(f))

NextTie ==
    \/ \E f \in TieFiles : EnqueueTie(f)
    \/ \E i \in 1..MaxInFlight : Resume(i)
    \/ TimerFire

SpecTie == InitQ /\ [][NextTie]_vars

-----------------------------------------------------------------------------
(* The WorkspaceLinter whose initialize() failed in the constructor: the error *)
(* shown, isInitialized false, no adapter registered, the configuration loaded *)
(* or not                                                                      *)

InitI ==
    /\ configCache \in {NullConfiguration, DefaultConfiguration}
    /\ gitignoreFile = NoIgnoreFile
    /\ now = gitignoreCacheDuration
    /\ InitFields
    /\ Initialized(FALSE)
    /\ trace = [on |-> FALSE, enq |-> <<>>, disp |-> <<>>, batch |-> <<>>]
    /\ wl = NoWorkspaceLinter
    /\ boot = NoBoot
    /\ probe = NoProbe

SpecI == InitI /\ [][Next]_vars

-----------------------------------------------------------------------------
(* activate() of extensions.ts: the WorkspaceLinter is constructed and          *)
(* startLinting() is called in the same turn; the continuations of the          *)
(* initialize() calls run in the order they were queued                         *)

\* the fields before `new WorkspaceLinter(diagnosticProvider)`
InitA ==
    /\ configCache = NullConfiguration
    /\ gitignoreFile = NoIgnoreFile
    /\ now = gitignoreCacheDuration
    /\ InitFields
    /\ isInitialized = FALSE
    /\ linters = {}
    /\ gitignorePatterns = <<>>
    /\ gitignoreCacheTime = 0
    /\ last = NoEvent
    /\ trace = [on |-> FALSE, enq |-> <<>>, disp |-> <<>>, batch |-> <<>>]
    /\ wl = NoWorkspaceLinter
    /\ probe = NoProbe
    /\ boot = [pc |-> "start", inits |-> <<>>, loads |-> 0, constructed |-> 0]

\* the frame of the steps of activate()
bootFrame == <<lintingQueue, isProcessingQueue, lintingStats,
               diagnosticCollection, fileStats, diagnosticStats, active, timers, stopped, trace,
               gitignoreFile, now, fileChangeTimeout, wl, probe>>

\* the continuations queued after the head one has run: `next` is queued behind
\* the others; the queue empty, activate() goes on waiting for findFiles
Requeued(next) ==
    LET q == Tail(boot.inits) \o next
    IN  [boot EXCEPT !.inits = q,
                     !.pc = IF q = <<>> THEN "done" ELSE @]

\* activate() up to the first await of startLinting: the constructor calls
\* initialize(), which runs loadConfiguration(); startLinting() finds
\* isInitialized false and calls initialize(), which runs loadConfiguration()
Activate ==
    /\ boot.pc = "start"
    /\ configCache' = DefaultConfiguration
    /\ boot' = [boot EXCEPT
                   !.pc = "initializing",
                   !.loads = @ + (IF isInitialized THEN 1 ELSE 2),
                   !.inits = IF isInitialized
                             THEN <<[by |-> "constructor", at |-> "initializeLinters"]>>
                             ELSE <<[by |-> "constructor", at |-> "initializeLinters"],
                                    [by |-> "startLinting", at |-> "initializeLinters"]>>]
    /\ last' = [NoEvent EXCEPT !.op = "activate"]
    /\ UNCHANGED <<isLinting, linters, ws, isInitialized, ignoreVars, bootFrame>>

\* the continuation at the head of the queue runs up to its next await.
\* initialize(): initializeLinters() (ok: no constructor of an adapter throws),
\* loadGitignorePatterns(), isInitialized = true; a failure is caught and shown.
\* startLinting() after its initialize() has returned: isLinting is set and
\* lintWorkspace() called.
BootStep(ok) ==
    /\ boot.pc = "initializing"
    /\ boot.inits # <<>>
    /\ LET t == Head(boot.inits)
           resumed == IF t.by = "startLinting"
                      THEN <<[by |-> "activate", at |-> "startLinting"]>>
                      ELSE <<>>
       IN  CASE t.at = "initializeLinters" ->
                  /\ linters' = IF ok THEN linters \cup RegisteredLinters
                                 ELSE linters
                  /\ boot' = [Requeued(IF ok
                                       THEN <<[t EXCEPT !.at = "loadGitignorePatterns"]>>
                                       ELSE resumed)
                                EXCEPT !.constructed = @ + 1]
                  /\ last' = [NoEvent EXCEPT !.op = "initialize", !.failed = ~ok]
                  /\ UNCHANGED <<isLinting, ws, isInitialized, ignoreVars>>
             [] t.at = "loadGitignorePatterns" ->
                  /\ ok
                  /\ LET r == loadGitignorePatterns(gitignorePatterns,
                                                    gitignoreCacheTime, now,
                                                    gitignoreFile)
                     IN  /\ gitignorePatterns' = r.patterns
                         /\ gitignoreCacheTime' = r.cacheTime
                  /\ boot' = Requeued(<<[t EXCEPT !.at = "setInitialized"]>>)
                  /\ last' = [NoEvent EXCEPT !.op = "initialize"]
                  /\ UNCHANGED <<isLinting, linters, ws, isInitialized>>
             [] t.at = "setInitialized" ->
                  /\ ok
                  /\ isInitialized' = TRUE
                  /\ boot' = Requeued(resumed)
                  /\ last' = [NoEvent EXCEPT !.op = "initialize"]
                  /\ UNCHANGED <<isLinting, linters, ws, ignoreVars>>
             [] t.at = "startLinting" ->
                  /\ ok
                  /\ BeginWorkspaceRun
                  /\ isLinting' = TRUE
                  /\ boot' = Requeued(<<>>)
                  /\ last' = [NoEvent EXCEPT !.op = "startLinting"]
                  /\ UNCHANGED <<linters, isInitialized>>
    /\ UNCHANGED <<configCache, bootFrame>>

\* once activate() waits for findFiles, the commands and events of the session
NextA ==
    \/ Activate
    \/ \E ok \in BOOLEAN : BootStep(ok)
    \/ Next

SpecA == InitA /\ [][NextA]_vars

-----------------------------------------------------------------------------
(* Workspace runs with the dispatches recorded: a workspace whose files all     *)
(* pass the eligibility check, d.pyw among them, an extension the Python        *)
(* adapter declares and linterMap does not know                                 *)

\* fewer files than a batch holds: the timer of processQueue is never set
RunFiles == {"a.css", "b.py", "c.scss", "d.pyw"}

WsDiscoveredC == WsDiscoveredFrom(RunFiles)

NextC ==
    \/ StartLinting
    \/ StopLinting
    \/ LintWorkspace
    \/ WsDiscoveredC
    \/ WsLoop
    \/ WsFinish
    \/ \E i \in 1..MaxInFlight : Resume(i)

SpecC == InitQ /\ [][NextC]_vars

-----------------------------------------------------------------------------
(* The queue harness with more files waiting than a batch holds: the files of   *)
(* the workspace enqueued one after the other, each at its priority            *)

\* addToQueue calls made: one more than the files, so that the file drawn first
\* can be enqueued again behind the five others
MaxBatchEnqueues == 7

\* addToQueue(uri, priority) for the next file
EnqueueNext ==
    LET f == FileOrder[(Len(trace.enq) % Len(FileOrder)) + 1]
    IN  EnqueueUpTo(f, TestPriority(f), MaxBatchEnqueues)

NextB ==
    \/ EnqueueNext
    \/ \E i \in 1..MaxInFlight : Resume(i)
    \/ TimerFire

SpecB == InitQ /\ [][NextB]_vars

-----------------------------------------------------------------------------
(* The DiagnosticProvider on its own: its four public operations that write,   *)
(* called in any order on two files                                           *)

\* the issues a file may have at most: addDiagnostics adds up to this length
MaxIssues == 3

SinkFiles == {"a.css", "b.py"}

\* the issue lists passed to setDiagnostics and addDiagnostics
SinkIssueLists ==
    {<<>>, <<"error">>, <<"warning">>, <<"info">>, <<"error", "warning", "info">>}

\* a call of the provider from a handler of the host: the sink afterwards,
\* nothing else changed
SinkCall(op, f, sink) ==
    /\ diagnosticCollection' = sink[1]
    /\ fileStats' = sink[2]
    /\ diagnosticStats' = sink[3]
    /\ last' = [NoEvent EXCEPT !.op = op, !.file = f]
    /\ UNCHANGED <<isLinting, linters, lintingQueue, isProcessingQueue,
                   lintingStats, active, timers, ws, stopped, trace, hostVars,
                   ignoreVars>>

\* diagnosticProvider.setDiagnostics(uri, issues)
SetDiagnostics(f, issues) ==
    /\ HostFree
    /\ SinkCall("setDiagnostics", f,
                setDiagnostics(diagnosticCollection, fileStats, f, issues))

\* diagnosticProvider.addDiagnostics(uri, issues)
AddDiagnostics(f, issues) ==
    /\ HostFree
    /\ Len(diagnosticCollection[f].issues) + Len(issues) <= MaxIssues
    /\ SinkCall("addDiagnostics", f,
                addDiagnostics(diagnosticCollection, fileStats, f, issues))

\* diagnosticProvider.clearDiagnostics(uri)
ClearDiagnostics(f) ==
    /\ HostFree
    /\ SinkCall("clearDiagnostics", f,
                clearDiagnostics(diagnosticCollection, fileStats, f))

\* diagnosticProvider.clearAllDiagnostics()
ClearAllDiagnostics ==
    /\ HostFree
    /\ SinkCall("clearAllDiagnostics", "",
                clearAllDiagnostics(diagnosticCollection, fileStats))

NextT ==
    \/ \E f \in SinkFiles, issues \in SinkIssueLists : SetDiagnostics(f, issues)
    \/ \E f \in SinkFiles, issues \in SinkIssueLists : AddDiagnostics(f, issues)
    \/ \E f \in SinkFiles : ClearDiagnostics(f)
    \/ ClearAllDiagnostics

SpecT == Init /\ [][NextT]_vars

-----------------------------------------------------------------------------
(* src/workspaceLinter.ts: ignore matching on its own *)

\* String.prototype.includes, startsWith, endsWith
includes(s, part) ==
    \E k \in 1..(Len(s) - Len(part) + 1) : SubSeq(s, k, k + Len(part) - 1) = part
startsWith(s, part) == Len(part) <= Len(s) /\ SubSeq(s, 1, Len(part)) = part
endsWith(s, part) ==
    Len(part) <= Len(s) /\ SubSeq(s, Len(s) - Len(part) + 1, Len(s)) = part

\* the folder of the workspace
workspaceRoot == <<"/", "w">>

\* vscode.workspace.asRelativePath(filePath): the path below the workspace
\* folder, the path itself for a file outside the folder
asRelativePath(filePath) ==
    IF startsWith(filePath, workspaceRoot \o <<"/">>)
    THEN SubSeq(filePath, Len(workspaceRoot) + 2, Len(filePath))
    ELSE filePath

\* a directory rule that only looks at the start of the path
directoryRule_StartsWithOnly(relativePath, pattern) ==
    startsWith(relativePath, pattern)

\* matchesGitignore, `pattern.endsWith('/')`:
\* relativePath.includes(pattern) || relativePath.startsWith(pattern)
directoryRule(relativePath, pattern) ==
    includes(relativePath, pattern) \/ startsWith(relativePath, pattern)

\* matchesGitignore, the wildcard branch: '.' -> '\.', '*' -> '.*', '?' -> '.',
\* as the elements of the regular expression (patterns of letters, '/', '.',
\* '*' and '?')
wildcardRegex(pattern) ==
    [k \in 1..Len(pattern) |->
        IF pattern[k] = "*" THEN [t |-> "any*", c |-> ""]
        ELSE IF pattern[k] = "?" THEN [t |-> "any", c |-> ""]
        ELSE [t |-> "char", c |-> pattern[k]]]

\* RegExp.prototype.test of an expression without anchors: some part of s
\* matches
regexTest(regex, s) ==
    LET RECURSIVE M(_, _)
        \* the elements r match a start of x
        M(r, x) ==
            IF r = <<>> THEN TRUE
            ELSE IF r[1].t = "any*"
                 THEN \E n \in 0..Len(x) : M(Tail(r), SubSeq(x, n + 1, Len(x)))
            ELSE /\ x # <<>>
                 /\ r[1].t = "any" \/ r[1].c = x[1]
                 /\ M(Tail(r), Tail(x))
    IN  \E k \in 1..(Len(s) + 1) : M(regex, SubSeq(s, k, Len(s)))

\* matchesGitignore(filePath, gitignorePatterns) of src/workspaceLinter.ts
wlMatchesGitignore(filePath, patterns) ==
    LET relativePath == asRelativePath(filePath)
    IN  \E k \in 1..Len(patterns) :
          LET pattern == patterns[k]
          IN  IF endsWith(pattern, <<"/">>)
              THEN directoryRule(relativePath, pattern)
              ELSE IF "*" \in Range(pattern)
                   THEN regexTest(wildcardRegex(pattern), relativePath)
              ELSE relativePath = pattern \/ includes(relativePath, pattern)

\* ignore patterns: two directories, two wildcards, a name
BuildDir == <<"b", "u", "i", "l", "d", "/">>
ProbePatterns == {BuildDir,
                  <<"p", "k", "g", "/">>,
                  <<"*", ".", "c", "s", "s">>,
                  <<"a", "?", "c", "*">>,
                  <<"s", "r", "c">>}

\* lists of at most two patterns
ProbePatternLists ==
    {<<>>} \cup {<<p>> : p \in ProbePatterns}
           \cup {<<p, q>> : p \in ProbePatterns, q \in ProbePatterns}

\* fsPath of files in and outside the workspace folder
BuildFile == <<"/", "w", "/", "b", "u", "i", "l", "d", "/", "a", ".", "t", "s">>
NestedBuildFile ==
    <<"/", "w", "/", "p", "k", "g", "/", "b", "u", "i", "l", "d", "/", "a", ".", "t", "s">>
ProbePaths ==
    {BuildFile, NestedBuildFile,
     <<"/", "w", "/", "s", "r", "c", "/", "a", ".", "t", "s">>,
     <<"/", "w", "/", "r", "e", "b", "u", "i", "l", "d", "/", "a", ".", "t", "s">>,
     <<"/", "w", "/", "b", "u", "i", "l", "d">>,
     <<"/", "w", "/", "s", "r", "c", "/", "a", "b", "c", ".", "c", "s", "s">>,
     <<"/", "x", "/", "b", "u", "i", "l", "d", "/", "a", ".", "t", "s">>}

InitM ==
    /\ EnvDefault
    /\ InitFields
    /\ InitReady
    /\ trace = [on |-> FALSE, enq |-> <<>>, disp |-> <<>>, batch |-> <<>>]
    /\ wl = NoWorkspaceLinter
    /\ boot = NoBoot
    /\ probe \in [patterns : ProbePatternLists, filePath : ProbePaths,
                  applied : {FALSE}, result : {FALSE}]

\* this.matchesGitignore(filePath, gitignorePatterns)
MatchesGitignore ==
    /\ ~probe.applied
    /\ probe' = [probe EXCEPT
                    !.applied = TRUE,
                    !.result = wlMatchesGitignore(probe.filePath, probe.patterns)]
    /\ UNCHANGED <<isLinting, linters, lintingQueue, isProcessingQueue,
                   lintingStats, diagnosticCollection, fileStats, diagnosticStats, active, timers,
                   ws, configCache, gitignorePatterns, gitignoreCacheTime,
                   gitignoreFile, now, fileChangeTimeout, stopped, last, trace,
                   isInitialized, wl, boot>>

NextM == MatchesGitignore

SpecM == InitM /\ [][NextM]_vars

-----------------------------------------------------------------------------
(* matchesPattern on its own: exclude patterns of the default configuration    *)
(* and others, tried on workspace-relative paths                               *)

\* the exclude pattern '**/node_modules/**'
NodeModulesPattern == <<"*", "*", "/", "n", "o", "d", "e", "_", "m", "o", "d", "u", "l", "e", "s", "/", "*", "*">>

GlobPatterns ==
    {NodeModulesPattern,
     <<"*", ".", "c", "s", "s">>,
     <<"*", "*", "/", "*", ".", "m", "i", "n", ".", "j", "s">>,
     <<"s", "r", "c", "/", "*">>,
     <<"?", ".", "t", "s">>,
     <<"*", "*", "/", "o", "u", "t", "/", "*", "*">>,
     <<"a", ".", "c", "s", "s">>}

\* a file two levels below a node_modules directory
NestedModuleFile ==
    <<"p", "/", "n", "o", "d", "e", "_", "m", "o", "d", "u", "l", "e", "s", "/", "q", "/", "x", ".", "j", "s">>

GlobPaths ==
    {NestedModuleFile,
     <<"p", "/", "n", "o", "d", "e", "_", "m", "o", "d", "u", "l", "e", "s", "/", "x", ".", "j", "s">>,
     <<"n", "o", "d", "e", "_", "m", "o", "d", "u", "l", "e", "s", "/", "x", ".", "j", "s">>,
     <<"a", ".", "c", "s", "s">>,
     <<"s", "r", "c", "/", "a", ".", "t", "s">>,
     <<"s", "r", "c", "/", "b", "/", "a", ".", "t", "s">>,
     <<"p", "/", "q", "/", "a", ".", "m", "i", "n", ".", "j", "s">>,
     <<"x", ".", "t", "s">>,
     <<"p", "/", "o", "u", "t", "/", "q", "/", "x", ".", "c", "s", "s">>}

InitP ==
    /\ EnvDefault
    /\ InitFields
    /\ InitReady
    /\ trace = [on |-> FALSE, enq |-> <<>>, disp |-> <<>>, batch |-> <<>>]
    /\ wl = NoWorkspaceLinter
    /\ boot = NoBoot
    /\ probe \in [patterns : {<<p>> : p \in GlobPatterns}, filePath : GlobPaths,
                  applied : {FALSE}, result : {FALSE}]

\* this.matchesPattern(relativePath, pattern)
MatchesPattern ==
    /\ ~probe.applied
    /\ probe' = [probe EXCEPT
                    !.applied = TRUE,
                    !.result = matchesPattern(probe.filePath, probe.patterns[1])]
    /\ UNCHANGED <<isLinting, linters, lintingQueue, isProcessingQueue,
                   lintingStats, diagnosticCollection, fileStats, diagnosticStats, active, timers,
                   ws, configCache, gitignorePatterns, gitignoreCacheTime,
                   gitignoreFile, now, fileChangeTimeout, stopped, last, trace,
                   isInitialized, wl, boot>>

NextP == MatchesPattern

SpecP == InitP /\ [][NextP]_vars

-----------------------------------------------------------------------------
(* src/workspaceLinter.ts: the WorkspaceLinter that extensions.ts imports *)

\* the files of the workspace that the glob of findFiles selects, in the order
\* findFiles returns them, by fsPath
WlWorkspace == <<"/w/src/a.ts", "/w/src/c.py", "/w/build/b.css", "/w/src/a.test.ts", "/w/Src/d.html">>

\* uri.fsPath, character by character
fsPath(f) ==
    CASE f = "/w/src/a.ts" -> <<"/", "w", "/", "s", "r", "c", "/", "a", ".", "t", "s">>
      [] f = "/w/src/c.py" -> <<"/", "w", "/", "s", "r", "c", "/", "c", ".", "p", "y">>
      [] f = "/w/build/b.css" -> 
             <<"/", "w", "/", "b", "u", "i", "l", "d", "/", "b", ".", "c", "s", "s">>
      [] f = "/w/src/a.test.ts" -> 
             <<"/", "w", "/", "s", "r", "c", "/", "a", ".", "t", "e", "s", "t", ".", "t", "s">>
      [] f = "/w/Src/d.html" -> 
             <<"/", "w", "/", "S", "r", "c", "/", "d", ".", "h", "t", "m", "l">>

\* path.extname(uri.fsPath).slice(1)
extname(f) ==
    CASE f = "/w/src/a.ts" -> "ts"
      [] f = "/w/src/c.py" -> "py"
      [] f = "/w/build/b.css" -> "css"
      [] f = "/w/src/a.test.ts" -> "ts"
      [] f = "/w/Src/d.html" -> "html"

\* String.prototype.toLowerCase
toLowerCase(s) ==
    [k \in 1..Len(s) |->
        LET c == s[k]
        IN  CASE c = "A" -> "a" []
          c = "B" -> "b" []
          c = "C" -> "c" []
          c = "D" -> "d" []
          c = "E" -> "e" []
          c = "F" -> "f" []
          c = "G" -> "g" []
          c = "H" -> "h" []
          c = "I" -> "i" []
          c = "J" -> "j" []
          c = "K" -> "k" []
          c = "L" -> "l" []
          c = "M" -> "m" []
          c = "N" -> "n" []
          c = "O" -> "o" []
          c = "P" -> "p" []
          c = "Q" -> "q" []
          c = "R" -> "r" []
          c = "S" -> "s" []
          c = "T" -> "t" []
          c = "U" -> "u" []
          c = "V" -> "v" []
          c = "W" -> "w" []
          c = "X" -> "x" []
          c = "Y" -> "y" []
          c = "Z" -> "z"
              [] OTHER -> c]

\* shouldLintFile: excludePatterns
wlExcludePatterns ==
    {<<"n", "o", "d", "e", "_", "m", "o", "d", "u", "l", "e", "s">>,
     <<"/", "d", "i", "s", "t", "/">>,
     <<"/", "b", "u", "i", "l", "d", "/">>,
     <<"/", "o", "u", "t", "/">>,
     <<"/", ".", "g", "i", "t", "/">>,
     <<"/", "c", "o", "v", "e", "r", "a", "g", "e", "/">>,
     <<"/", ".", "v", "s", "c", "o", "d", "e", "/">>,
     <<"/", "l", "i", "b", "/">>,
     <<"/", "v", "e", "n", "v", "/">>,
     <<"/", "_", "_", "p", "y", "c", "a", "c", "h", "e", "_", "_", "/">>,
     <<"/", ".", "n", "e", "x", "t", "/">>,
     <<"/", ".", "n", "u", "x", "t", "/">>,
     <<"/", "t", "a", "r", "g", "e", "t", "/">>,
     <<"/", "v", "e", "n", "d", "o", "r", "/">>,
     <<"/", ".", "c", "a", "c", "h", "e", "/">>,
     <<"/", "t", "m", "p", "/">>,
     <<"/", "l", "o", "g", "s", "/">>,
     <<"/", "t", "e", "m", "p", "/">>,
     <<".", "m", "i", "n", ".">>,
     <<".", "b", "u", "n", "d", "l", "e", ".">>,
     <<".", "c", "o", "m", "p", "i", "l", "e", "d", ".">>,
     <<"/", "a", "s", "s", "e", "t", "s", "/">>,
     <<"/", "s", "t", "a", "t", "i", "c", "/">>,
     <<"/", "p", "u", "b", "l", "i", "c", "/">>,
     <<"/", "d", "o", "c", "s", "/">>,
     <<"/", "t", "e", "s", "t", "/">>,
     <<"/", "t", "e", "s", "t", "s", "/">>,
     <<"/", ".", "n", "y", "c", "_", "o", "u", "t", "p", "u", "t", "/">>,
     <<"/", "c", "y", "p", "r", "e", "s", "s", "/">>,
     <<"/", "e", "2", "e", "/">>,
     <<"s", "p", "e", "c", ".">>,
     <<"t", "e", "s", "t", ".">>,
     <<".", "s", "p", "e", "c", ".">>,
     <<".", "t", "e", "s", "t", ".">>}

\* shouldLintFile: sourcePatterns
wlSourcePatterns ==
    {<<"/", "s", "r", "c", "/">>,
     <<"/", "s", "o", "u", "r", "c", "e", "/">>,
     <<"/", "a", "p", "p", "/">>,
     <<"/", "c", "o", "m", "p", "o", "n", "e", "n", "t", "s", "/">>,
     <<"/", "p", "a", "g", "e", "s", "/">>,
     <<"/", "v", "i", "e", "w", "s", "/">>,
     <<"/", "u", "t", "i", "l", "s", "/">>,
     <<"/", "h", "e", "l", "p", "e", "r", "s", "/">>,
     <<"/", "s", "e", "r", "v", "i", "c", "e", "s", "/">>,
     <<"/", "a", "p", "i", "/">>,
     <<"/", "b", "a", "c", "k", "e", "n", "d", "/">>}

\* filePath.split('/').length
SplitLength(s) == Cardinality({k \in 1..Len(s) : s[k] = "/"}) + 1

\* shouldLintFile(uri) of src/workspaceLinter.ts
wlShouldLintFile(f) ==
    LET filePath == toLowerCase(fsPath(f))
        isInSourceDir == \E pattern \in wlSourcePatterns : includes(filePath, pattern)
        isRootConfig == SplitLength(filePath) <= 3
    IN  IF ~isInSourceDir /\ ~isRootConfig THEN FALSE
        ELSE ~\E pattern \in wlExcludePatterns : includes(filePath, pattern)

\* readGitignore(): the lines of .gitignore trimmed, without the empty lines and
\* the comments; no pattern if the file is missing or cannot be read
readGitignore(file) ==
    IF file.exists /\ file.readable THEN parseGitignore(file.lines) ELSE <<>>

\* initializeLinters and linterMap of getLinterForExtension: every extension of
\* the findFiles glob has a linter registered
wlLinterForExtension(ext) ==
    CASE ext \in {"ts", "tsx"} -> "typescript"
      [] ext \in {"js", "jsx"} -> "javascript"
      [] ext = "py" -> "python"
      [] ext = "html" -> "html"
      [] ext \in {"css", "scss", "sass"} -> "css"
      [] OTHER -> "none"

\* lintWorkspace: allFiles.filter(...), gitignore first, then shouldLintFile
wlFilter(patterns) ==
    SelectSeq(WlWorkspace,
              LAMBDA f : /\ ~wlMatchesGitignore(fsPath(f), patterns)
                         /\ wlShouldLintFile(f))

\* a .gitignore naming the build directory and one source file
WlIgnore == <<<<"b", "u", "i", "l", "d", "/">>, <<"c", ".", "p", "y">>>>

\* lintWorkspace() executions under way at a time, and setInterval timers set
MaxScans == 2
MaxIntervals == 2

\* `}, 30000); // Re-lint every 30 seconds`
relintInterval == 30000

InitL ==
    /\ configCache = DefaultConfiguration
    /\ gitignoreFile = IgnoreFile(WlIgnore)
    /\ now = gitignoreCacheDuration
    /\ InitFields
    /\ InitReady
    /\ trace = [on |-> FALSE, enq |-> <<>>, disp |-> <<>>, batch |-> <<>>]
    /\ wl = NoWorkspaceLinter
    /\ boot = NoBoot
    /\ probe = NoProbe

\* the variables of the README's class and of the host
notWl == <<isLinting, linters, lintingQueue, isProcessingQueue, lintingStats,
           diagnosticCollection, fileStats, diagnosticStats, active, timers, ws, configCache,
           gitignorePatterns, gitignoreCacheTime, now, fileChangeTimeout,
           stopped, last, trace, isInitialized, probe, boot>>

\* lintWorkspace() up to `await vscode.workspace.findFiles(...)`: the
\* .gitignore is read; awaited: startLinting waits for it to set its timer
wlBeginScan(origin, awaited) ==
    [origin |-> origin, awaited |-> awaited, stage |-> "findFiles",
     patterns |-> readGitignore(gitignoreFile), files |-> <<>>]

\* live setInterval timers and those startLinting calls under way will set
IntervalsDue ==
    wl.intervals
        + Cardinality({i \in 1..Len(wl.scans) :
                          wl.scans[i].awaited /\ wl.scans[i].stage = "findFiles"})

\* startLinting()
WlStartLinting ==
    /\ IF wl.isLinting
       THEN wl' = [wl EXCEPT !.op = "startLinting"]
       ELSE /\ Len(wl.scans) < MaxScans
            /\ IntervalsDue < MaxIntervals
            /\ wl' = [wl EXCEPT
                        !.isLinting = TRUE,
                        !.scans = Append(@, wlBeginScan("startLinting", TRUE)),
                        !.op = "startLinting"]
    /\ UNCHANGED <<notWl, gitignoreFile>>

\* stopLinting(): clearAllDiagnostics(); no timer is cleared
WlStopLinting ==
    /\ wl' = [wl EXCEPT !.isLinting = FALSE, !.diagnostics = {},
                        !.op = "stopLinting"]
    /\ UNCHANGED <<notWl, gitignoreFile>>

\* the autolinter.lintWorkspace command
WlLintWorkspace ==
    /\ Len(wl.scans) < MaxScans
    /\ wl' = [wl EXCEPT !.scans = Append(@, wlBeginScan("command", FALSE)),
                        !.op = "lintWorkspace"]
    /\ UNCHANGED <<notWl, gitignoreFile>>

\* a timer of setInterval fires, relintInterval after it fired last:
\* if (this.isLinting) this.lintWorkspace()
WlIntervalFire ==
    /\ wl.intervals > 0
    /\ relintInterval > 0
    /\ IF wl.isLinting
       THEN /\ Len(wl.scans) < MaxScans
            /\ wl' = [wl EXCEPT
                        !.scans = Append(@, wlBeginScan("interval", FALSE)),
                        !.op = "interval"]
       ELSE wl' = [wl EXCEPT !.op = "interval"]
    /\ UNCHANGED <<notWl, gitignoreFile>>

\* findFiles resolves in lintWorkspace execution i: the files are filtered (the
\* workspace has fewer than 500, nothing is asked), withProgress starts the
\* loop, which calls lintFile for the first file, and lintWorkspace returns; a
\* startLinting that awaited it sets its timer
WlFindFilesDone(i) ==
    /\ i \in 1..Len(wl.scans)
    /\ wl.scans[i].stage = "findFiles"
    /\ LET files == wlFilter(wl.scans[i].patterns)
           timer == IF wl.scans[i].awaited THEN 1 ELSE 0
       IN  wl' = [wl EXCEPT
                    !.scans = IF files = <<>> THEN RemoveAt(@, i)
                              ELSE [@ EXCEPT ![i].stage = "progress",
                                             ![i].files = files],
                    !.intervals = @ + timer,
                    !.op = "findFiles"]
    /\ UNCHANGED <<notWl, gitignoreFile>>

\* linter.lint(uri) of the file execution i waits for settles: the diagnostics
\* are set, or the error is logged; the loop goes on to the next file unless
\* the progress was cancelled
WlLintFileDone(i, ok, cancelled) ==
    /\ i \in 1..Len(wl.scans)
    /\ wl.scans[i].stage = "progress"
    /\ wlLinterForExtension(extname(Head(wl.scans[i].files))) # "none"
    /\ LET f == Head(wl.scans[i].files)
           rest == Tail(wl.scans[i].files)
       IN  wl' = [wl EXCEPT
                    !.diagnostics = IF ok THEN @ \cup {f} ELSE @,
                    !.scans = IF rest = <<>> \/ cancelled THEN RemoveAt(@, i)
                              ELSE [@ EXCEPT ![i].files = rest],
                    !.op = "lintFile"]
    /\ UNCHANGED <<notWl, gitignoreFile>>

NextL ==
    \/ WlStartLinting
    \/ WlStopLinting
    \/ WlLintWorkspace
    \/ WlIntervalFire
    \/ \E i \in 1..MaxScans : WlFindFilesDone(i)
    \/ \E i \in 1..MaxScans, ok \in BOOLEAN, cancelled \in BOOLEAN :
          WlLintFileDone(i, ok, cancelled)

SpecL == InitL /\ [][NextL]_vars

-----------------------------------------------------------------------------
(* Stopping: C1, C7, C8 *)

SinkEmpty ==
    /\ diagnosticCollection = [f \in Files |-> NoEntry]
    /\ fileStats = [f \in Files |-> NoStats]
    /\ diagnosticStats = resetStats

\* the step hands a file to a linter adapter
DispatchStep ==
    \E i \in 1..Len(active') :
        active'[i].cur # "nolinter" /\ active'[i] \notin Range(active)

\* the step publishes diagnostics for a file
PublishStep ==
    \E f \in Files :
        /\ diagnosticCollection'[f].present
        /\ diagnosticCollection'[f] # diagnosticCollection[f]

\* C1: between a stopLinting and the next startLinting no step hands a file to a
\* linter adapter and no step publishes diagnostics, whatever requests, batches
\* in flight or timer continuations exist.
C1_StopCancelsEverything ==
    [][(stopped /\ stopped') => (~DispatchStep /\ ~PublishStep)]_vars

\* a file enqueued by a workspace run is in a batch that has not finished
RunFileInFlight ==
    \E i \in 1..Len(active) :
        \E j \in 1..Len(active[i].batch) : active[i].batch[j].priority = LowPriority

\* C7: when stopLinting arrives while a file of a workspace run is still in
\* flight, getStats shows no files processed beyond the count at the start of
\* that run.
C7_NoStatsForAbortedRun ==
    (last.op = "stopLinting" /\ RunFileInFlight)
        => lintingStats.filesProcessed = ws.base

StoppedState == lintingQueue = <<>> /\ SinkEmpty /\ ~isLinting

\* C8: after every stopLinting, from whatever state it is called, the queue is
\* empty, the sink holds no diagnostics and isCurrentlyLinting is false. That
\* state fixes the three values, so a stopLinting called when already stopped
\* leaves them as they were.
C8_StopLeavesNothing == last.op = "stopLinting" => StoppedState

\* a stopLinting that dropped queued files and cleared published issues
C8_Witness ==
    last.op = "stopLinting" /\ last.replaced # {} /\ last.hadIssues

-----------------------------------------------------------------------------
(* The drain: C2, C3, C9, C10 *)

MacrotaskPending ==
    timers > 0 \/ \E i \in 1..Len(active) : active[i].cur = "io"

\* C2: a workspace run that reached its drain loop eventually returns, unless
\* stopLinting or dispose intervenes.
C2_WorkspaceRunReturns ==
    (ws.pc = "loop") ~> (ws.pc = "idle" \/ last.op \in {"stopLinting", "dispose"})

\* C3: whenever a timer continuation or an adapter's I/O callback is pending,
\* the host event loop eventually gets to run it: the drain loop does not keep
\* the host busy without yielding.
C3_HostGetsToRun == MacrotaskPending ~> HostFree

\* the file is in the hands of a linter adapter
BeingLinted(f) ==
    \E i \in 1..Len(active) :
        active[i].batch[1].uri = f /\ active[i].cur # "nolinter"

\* C9: every lintFile request for an eligible file is eventually followed by the
\* dispatch of that file to its linter adapter, unless stopLinting or dispose
\* intervenes.
C9_RequestEventuallyDispatched ==
    \A f \in EventFiles :
        (last.op = "lintFile" /\ last.file = f /\ shouldLintFile(f, linters))
            ~> (BeingLinted(f) \/ last.op \in {"stopLinting", "dispose"})

QueuedAt(f, p) == \E i \in 1..Len(lintingQueue) : lintingQueue[i] = Item(f, p)

\* C10: a file queued at the interactive priority together with entries of a
\* workspace scan eventually leaves the queue: it is drawn, or dropped by
\* stopLinting or dispose.
C10_InteractiveNotStarved ==
    \A f \in {g \in EventFiles :
                 ExtOf(g) \in getSupportedExtensions(RegisteredLinters)} :
        (QueuedAt(f, HighPriority)
            /\ \E i \in 1..Len(lintingQueue) : lintingQueue[i].priority = LowPriority)
            ~> ~QueuedAt(f, HighPriority)

-----------------------------------------------------------------------------
(* The queue: C4, C5 *)

NoDuplicates(q) == \A i, j \in 1..Len(q) : q[i].uri = q[j].uri => i = j

\* C4: the queue never holds two entries for one file, and a request for a file
\* that is already queued leaves exactly one entry for it, with the priority of
\* the new request.
C4_OneEntryPerFile ==
    /\ NoDuplicates(lintingQueue)
    /\ last.op \in {"lintFile", "discovered"} =>
         \A it \in last.replaced :
            LET p == IF last.op = "lintFile" THEN HighPriority ELSE LowPriority
            IN  SelectSeq(lintingQueue, LAMBDA e : e.uri = it.uri)
                    = <<Item(it.uri, p)>>

\* a workspace run re-enqueued at priority 1 a file that was queued at priority 100
C4_Witness ==
    /\ last.op = "discovered"
    /\ \E it \in last.replaced : it.priority = HighPriority

SortedByPriority(q) ==
    \A i, j \in 1..Len(q) : i < j => q[i].priority >= q[j].priority

ScenarioABC == <<Item("a.css", LowPriority), Item("b.py", HighPriority),
                 Item("c.scss", 50)>>

\* C5 as stated: from idle, A(1), B(100), C(50) enqueued in that order are handed
\* to their linters in the order B, C, A.
C5_Original ==
    trace.enq = ScenarioABC
        => trace.disp = SubSeq(<<"b.py", "c.scss", "a.css">>, 1, Len(trace.disp))

\* C5 amended: every batch is drawn in descending priority order, so files that
\* wait in the queue together go to their linters highest priority first; from
\* idle the first file enqueued is dispatched at once, so A(1), B(100), C(50)
\* enqueued in that order are handed to their linters in the order A, B, C.
C5_PriorityAmongWaiting ==
    /\ trace.on => SortedByPriority(trace.batch)
    /\ \A n \in 1..3 :
         (trace.enq = ScenarioABC /\ Len(trace.disp) = n)
            => trace.disp = SubSeq(<<"a.css", "b.py", "c.scss">>, 1, n)

\* from idle A, B, C were enqueued; B and C waited together and were drawn as one batch
C5_Witness ==
    /\ trace.enq = ScenarioABC
    /\ trace.batch = <<Item("b.py", HighPriority), Item("c.scss", 50)>>
    /\ trace.disp = <<"a.css", "b.py", "c.scss">>

-----------------------------------------------------------------------------
(* Diagnostics of a failed lint: C6 *)

\* C6: when the lint of a file fails, the sink holds no diagnostics and no
\* statistics for that file afterwards.
C6_FailureClearsDiagnostics ==
    (last.op = "settled" /\ last.failed)
        => /\ ~diagnosticCollection[last.file].present
           /\ fileStats[last.file] = NoStats

\* a lint failed for a file that had issues published from an earlier lint
C6_Witness == last.op = "settled" /\ last.failed /\ last.hadIssues

-----------------------------------------------------------------------------
(* Order among equal priorities: C11 *)

EnqueuedOnce(f) == Cardinality({i \in 1..Len(trace.enq) : trace.enq[i].uri = f}) = 1
EnqueuePosition(f) == CHOOSE i \in 1..Len(trace.enq) : trace.enq[i].uri = f
Dispatched(f) == \E i \in 1..Len(trace.disp) : trace.disp[i] = f
DispatchPosition(f) == CHOOSE i \in 1..Len(trace.disp) : trace.disp[i] = f

\* C11: when two different files were each enqueued once, with equal priority,
\* the one enqueued first is handed to its linter first, whatever other
\* enqueues came before, between or after them.
C11_FifoAmongEquals ==
    \A f, g \in TieFiles :
        (/\ f # g
         /\ TiePriority(f) = TiePriority(g)
         /\ EnqueuedOnce(f) /\ EnqueuedOnce(g)
         /\ EnqueuePosition(f) < EnqueuePosition(g)
         /\ Dispatched(g))
            => Dispatched(f) /\ DispatchPosition(f) < DispatchPosition(g)

\* a.css and c.scss waited together, a higher-priority enqueue between them, and
\* were drawn in one batch in the order of their enqueues
C11_Witness ==
    /\ trace.enq = <<Item("b.py", HighPriority), Item("a.css", LowPriority),
                     Item("b.py", HighPriority), Item("c.scss", LowPriority)>>
    /\ trace.batch = <<Item("b.py", HighPriority), Item("a.css", LowPriority),
                       Item("c.scss", LowPriority)>>
    /\ trace.disp = <<"b.py", "b.py", "a.css", "c.scss">>

-----------------------------------------------------------------------------
(* Routing by extension: C17 *)

InBatch(f) ==
    \E i \in 1..Len(active) :
        \E j \in 1..Len(active[i].batch) : active[i].batch[j].uri = f

\* C17: a lintFile request for a file whose extension has an enabled registered
\* linter passes the eligibility check: after the call the file is in the queue
\* or in the batch being linted.
C17_RoutedFileIsAccepted ==
    (last.op = "lintFile"
        /\ getLinterForExtension(ExtOf(last.file), linters) # "none")
        => InQueue(lintingQueue, last.file) \/ InBatch(last.file)

-----------------------------------------------------------------------------
(* Writes to the diagnostics of a file: C20 *)

\* C20: a lint that completes leaves exactly its issue list as the diagnostics
\* of its file, whatever was stored before, and changes the diagnostics of no
\* other file.
C20_LastWriteWins ==
    /\ []((last.op = "settled" /\ ~last.failed)
            => diagnosticCollection[last.file]
                 = [present |-> TRUE, issues |-> last.issues])
    /\ [][last'.op = "settled"
            => \A g \in Files \ {last'.file} :
                  /\ diagnosticCollection'[g] = diagnosticCollection[g]
                  /\ fileStats'[g] = fileStats[g]]_vars

\* a lint returning no issue completed for a file that had issues stored, while
\* another file has issues stored
C20_Witness ==
    /\ last.op = "settled" /\ ~last.failed
    /\ last.hadIssues /\ last.issues = <<>>
    /\ \E g \in Files \ {last.file} : diagnosticCollection[g].issues # <<>>

-----------------------------------------------------------------------------
(* Cancelling a workspace run: C12 *)

-----------------------------------------------------------------------------
(* The file-limit prompt: C13, C14 *)

\* the files of the run that were put in the queue
RunEnqueued ==
    {f \in Range(ws.files) : InQueue(lintingQueue, f) \/ InBatch(f)}

\* C13: after the truncate answer to the file-limit prompt, exactly maxFiles
\* files, the first maxFiles of the discovery, are enqueued.
C13_TruncatesToMaxFiles ==
    last.op = "Lint First 1000" =>
        Cardinality(RunEnqueued) = fileLimit(configCache)

\* a step of lintWorkspace up to and including the Cancel answer to the prompt
StepToPromptCancel ==
    \/ ws.pc = "idle" /\ ws'.pc = "discover"
    \/ ws.pc = "discover" /\ ws'.pc = "prompt"
    \/ ws.pc = "prompt" /\ last'.op = "Cancel"

\* C14: a workspace run answered with Cancel at the file-limit prompt has no
\* side effect: none of its steps changes the queue, the Diagnostic Sink or
\* LintingStats, and none dispatches a file.
C14_PromptCancelHasNoSideEffects ==
    [][StepToPromptCancel =>
          /\ UNCHANGED <<lintingQueue, diagnosticCollection, fileStats, diagnosticStats,
                         lintingStats, active>>
          /\ ~DispatchStep]_vars

C14_Witness ==
    /\ last.op = "Cancel"
    /\ ws.pc = "idle"
    /\ lintingQueue # <<>>
    /\ \E f \in Files : diagnosticCollection[f].issues # <<>>

-----------------------------------------------------------------------------
(* The ignore-pattern cache: C15, C16 *)

\* the patterns a .gitignore stands for: its lines without the surrounding
\* blanks, the empty lines and the comment lines left out
PatternsOnDisk ==
    IF ~gitignoreFile.exists THEN {}
    ELSE {Trim(gitignoreFile.lines[i]) : i \in 1..Len(gitignoreFile.lines)}
         \ {t \in {Trim(l) : l \in Range(gitignoreFile.lines)} :
                t = <<>> \/ t[1] = "#"}

\* a call of loadGitignorePatterns that found the ignore file readable
LoadStep == last'.op \in {"cached", "loaded"}

\* C15: the pattern set changes only by a load, a load made less than 30 seconds
\* after the last successful one leaves it as it is, and a load made later makes
\* it the patterns of the ignore file as it is then.
C15_IgnoreCacheExpiry ==
    [][/\ ~LoadStep /\ last'.op # "failed" =>
            gitignorePatterns' = gitignorePatterns
       /\ LoadStep /\ now - gitignoreCacheTime < gitignoreCacheDuration =>
            gitignorePatterns' = gitignorePatterns
       /\ LoadStep /\ now - gitignoreCacheTime >= gitignoreCacheDuration =>
            Range(gitignorePatterns') = PatternsOnDisk]_vars

\* the cache was loaded at 30000, the file edited, and the load made 30 seconds
\* later read the new file
C15_Witness ==
    /\ last.op = "loaded"
    /\ gitignoreCacheTime = gitignoreCacheDuration + gitignoreCacheDuration
    /\ gitignorePatterns = <<<<"*", ".", "c", "s", "s">>>>

\* C16: a load that fails to read the ignore file leaves the pattern set as it
\* was before the call.
C16_ReadFailureKeepsPatterns ==
    [][last'.op = "failed" => gitignorePatterns' = gitignorePatterns]_vars

-----------------------------------------------------------------------------
(* Discovery: C18 *)

\* a glob as the specification reads it: '**' any characters, '*' any characters
\* but the separator, '?' any one character
GlobMatches(pattern, path) ==
    LET RECURSIVE G(_, _)
        G(p, x) ==
            IF p = <<>> THEN x = <<>>
            ELSE IF Len(p) >= 2 /\ p[1] = "*" /\ p[2] = "*"
                 THEN \E n \in 0..Len(x) :
                        G(SubSeq(p, 3, Len(p)), SubSeq(x, n + 1, Len(x)))
            ELSE IF p[1] = "*"
                 THEN \E n \in 0..Len(x) :
                        /\ \A k \in 1..n : x[k] # "/"
                        /\ G(Tail(p), SubSeq(x, n + 1, Len(x)))
            ELSE /\ x # <<>>
                 /\ p[1] = "?" \/ p[1] = x[1]
                 /\ G(Tail(p), Tail(x))
    IN  G(pattern, path)

Contains(path, part) ==
    \E k \in 1..(Len(path) - Len(part) + 1) :
        SubSeq(path, k, k + Len(part) - 1) = part

\* a pattern matches a path: the directory rule, a glob, or equality/containment
PatternMatches(pattern, path) ==
    IF pattern # <<>> /\ pattern[Len(pattern)] = "/" THEN Contains(path, pattern)
    ELSE IF "*" \in Range(pattern) THEN GlobMatches(pattern, path)
    ELSE Contains(path, pattern)

\* the file is to be rejected at discovery
Rejected(f) ==
    \/ ExtOf(f) \notin getSupportedExtensions(linters)
    \/ \E k \in 1..Len(gitignorePatterns) :
          PatternMatches(gitignorePatterns[k], PathOf(f))
    \/ \E k \in 1..Len(configCache.excludePatterns) :
          PatternMatches(configCache.excludePatterns[k], PathOf(f))

\* C18: a file of no enabled linter, or matching an ignore pattern or an exclude
\* pattern, is never in the queue, never in a batch and never gets an entry in
\* the Diagnostic Sink.
C18_RejectedFilesNeverLinted ==
    \A f \in Files :
        Rejected(f) =>
            /\ ~InQueue(lintingQueue, f)
            /\ ~InBatch(f)
            /\ ~diagnosticCollection[f].present

-----------------------------------------------------------------------------
(* Watcher events: C19 *)

\* C19: every created/changed event of the watcher leads to a lintFile call for
\* its file: the lint pending for a file is given up only by lintFile being
\* called for that file, not by an event for another file.
C19_EventLeadsToLintFile ==
    [][(fileChangeTimeout # "none" /\ fileChangeTimeout' # fileChangeTimeout) =>
          (last'.op = "lintFile" /\ last'.file = fileChangeTimeout)]_vars

-----------------------------------------------------------------------------
(* Statistics: C21 *)

\* C21: the error and warning counts of LintingStats (getStats()) equal the
\* current error and warning totals of the Diagnostic Sink in every state.
C21_StatsMirrorSink ==
    /\ lintingStats.errorsFound = errorCount(fileStats)
    /\ lintingStats.warningsFound = warningCount(fileStats)

-----------------------------------------------------------------------------
(* Completion of a workspace run: C22 *)

-----------------------------------------------------------------------------
(* The average time per file: C23 *)

\* C23: averageTimePerFile is totalTime / filesProcessed when files were
\* processed, and zero when none was.
C23_AverageIsTotalOverCount ==
    LET avg == lintingStats.averageTimePerFile
    IN  /\ avg.den # 0
        /\ lintingStats.filesProcessed > 0 =>
              avg.num * lintingStats.filesProcessed = lintingStats.totalTime * avg.den
        /\ lintingStats.filesProcessed = 0 => avg.num = 0

\* two runs were added up, and the average is not a whole number
C23_Witness ==
    /\ last.op = "updateLintingStats"
    /\ lintingStats.filesProcessed = 3
    /\ lintingStats.totalTime = 8
    /\ lintingStats.averageTimePerFile = [num |-> 8, den |-> 3]

-----------------------------------------------------------------------------
(* startLinting while linting: C24 *)

-----------------------------------------------------------------------------
(* lintFile: C26 *)

\* the file fails the eligibility check: its extension is not supported, or it
\* matches an ignore pattern or an exclude pattern
FailsEligibility(f) ==
    \/ ExtOf(f) \notin getSupportedExtensions(linters)
    \/ matchesGitignore(PathOf(f), gitignorePatterns)
    \/ \E k \in 1..Len(configCache.excludePatterns) :
          matchesPattern(PathOf(f), configCache.excludePatterns[k])

\* the step starts a drain: it draws a batch headed by an entry of priority p
\* for f, into a new activation
StartsDrainWith(f, p) ==
    /\ isProcessingQueue'
    /\ Len(active') = Len(active) + 1
    /\ active'[Len(active')].batch[1] = Item(f, p)

\* C26: lintFile on a file failing the eligibility check changes neither the
\* queue nor the Diagnostic Sink, and starts nothing; on an eligible file it
\* puts the file in the queue at priority 100, and when no drain is running
\* the drain starts in the same step, with that file.
C26_LintFileEffect ==
    [][last'.op = "lintFile" =>
          IF FailsEligibility(last'.file)
          THEN UNCHANGED <<lintingQueue, isProcessingQueue, active, timers,
                           diagnosticCollection, fileStats, diagnosticStats>>
          ELSE /\ UNCHANGED <<diagnosticCollection, fileStats, diagnosticStats>>
               /\ IF isProcessingQueue
                  THEN /\ \E k \in 1..Len(lintingQueue') :
                            lintingQueue'[k] = Item(last'.file, HighPriority)
                       /\ UNCHANGED <<active, isProcessingQueue>>
                  ELSE StartsDrainWith(last'.file, HighPriority)]_vars

\* lintFile was called for an excluded file while b.py was waiting
C26_Witness ==
    /\ last.op = "lintFile"
    /\ last.file = "a.css"
    /\ FailsEligibility("a.css")
    /\ QueuedAt("b.py", HighPriority)

-----------------------------------------------------------------------------
(* A failing file in a batch: C28 *)

\* C28: when the adapter fails for an item of a batch, the batch goes on: the
\* next item of the batch is handed to its linter, or, the batch being done,
\* the drain of the remaining queue is scheduled; no queued file is dropped.
C28_FailureDoesNotAbortBatch ==
    [][(last'.op = "settled" /\ last'.failed) =>
          /\ lintingQueue' = lintingQueue
          /\ \E i \in 1..Len(active) :
                /\ active[i].batch[1].uri = last'.file
                /\ IF Len(active[i].batch) > 1
                   THEN /\ Len(active') = Len(active)
                        /\ active'[i].batch = Tail(active[i].batch)
                        /\ active'[i].cur =
                             DispatchKind(active[i].batch[2].uri, linters)
                   ELSE /\ active' = RemoveAt(active, i)
                        /\ lintingQueue # <<>> => timers' = timers + 1]_vars

\* the lint of a file failed and the next file of its batch is being linted
C28_Witness ==
    /\ last.op = "settled"
    /\ last.failed
    /\ trace.disp # <<>>
    /\ trace.disp[Len(trace.disp)] # last.file
    /\ \E i \in 1..Len(active) :
          /\ active[i].batch[1].uri = trace.disp[Len(trace.disp)]
          /\ Item(last.file, TestPriority(last.file)) \in Range(trace.batch)
          /\ active[i].batch[1] \in Range(trace.batch)

-----------------------------------------------------------------------------
(* dispose: C29 *)

\* C29: after dispose() the queue is empty and the registry holds no adapter,
\* and dispose() called again changes none of the fields and calls no adapter's
\* dispose (so none is disposed twice).
C29_DisposeIsIdempotent ==
    last.op = "dispose" =>
        /\ lintingQueue = <<>>
        /\ linters = {}
        /\ LET d == disposeFields(isLinting, lintingQueue, isProcessingQueue,
                                  linters)
           IN  /\ d.isLinting = isLinting
               /\ d.lintingQueue = lintingQueue
               /\ d.isProcessingQueue = isProcessingQueue
               /\ d.linters = linters
               /\ d.disposed = {}

\* dispose() was called on an orchestrator already disposed, a batch of the
\* time before still being linted
C29_Witness ==
    /\ last.op = "dispose"
    /\ last.registry = {}
    /\ active # <<>>

-----------------------------------------------------------------------------
(* Ignore matching of src/workspaceLinter.ts: C30 *)

-----------------------------------------------------------------------------
(* Failed initialization: C27 *)

\* C27: a failed initialization is shown as an error, and as long as the
\* orchestrator is not initialized its registry is empty and startLinting,
\* lintFile, lintWorkspace and stopLinting hand no file to an adapter: nothing
\* is queued, nothing is in a batch, and the Diagnostic Sink has no entry.
C27_FailedInitializationIsInert ==
    ~isInitialized =>
        /\ last.op \in {"initialize", "startLinting"} => last.failed
        /\ linters = {}
        /\ lintingQueue = <<>>
        /\ active = <<>>
        /\ ~isProcessingQueue
        /\ \A f \in Files : ~diagnosticCollection[f].present

\* initialization failed in the constructor and again in startLinting; the
\* workspace lint of startLinting found no file, and lintFile was called
C27_Witness ==
    /\ ~isInitialized
    /\ isLinting
    /\ ws.pc = "idle"
    /\ last.op = "lintFile"
    /\ last.file = "a.css"

-----------------------------------------------------------------------------
(* Periodic re-linting of src/workspaceLinter.ts: C25 *)

\* C25: lintWorkspace runs only on startLinting or on the lint-now command,
\* never on a timer, and no timer set by startLinting is left when stopLinting
\* has been called.
C25_NoPeriodicRescan ==
    /\ \A i \in 1..Len(wl.scans) :
          wl.scans[i].origin \in {"startLinting", "command"}
    /\ wl.op = "stopLinting" => wl.intervals = 0

-----------------------------------------------------------------------------
(* Glob translation: C31 *)

\* C31: a pattern containing '*' matches a path exactly when the glob does,
\* '**' standing for any characters, separators included, and '*' for any
\* characters but the separator; so '**/node_modules/**' matches a file at any
\* depth below a node_modules directory.
C31_GlobTranslation ==
    (probe.applied /\ "*" \in Range(probe.patterns[1])) =>
        probe.result = GlobMatches(probe.patterns[1], probe.filePath)

-----------------------------------------------------------------------------
(* Drains: C32, C33 *)

\* C32: at most one processQueue activation is linting a batch at any time, and
\* isProcessingQueue is true exactly while a batch is being linted or the timer
\* that continues the drain is pending.
C32_AtMostOneDrain ==
    /\ Len(active) <= 1
    /\ isProcessingQueue <=> (active # <<>> \/ timers > 0)

\* C33: whenever the queue holds an item, a batch is being linted or the timer
\* that calls processQueue is pending.
C33_NoLostWakeup ==
    lintingQueue # <<>> => (active # <<>> \/ timers > 0)

\* a batch has ended and left items in the queue: only the timer is pending
C33_Witness ==
    /\ lintingQueue # <<>>
    /\ active = <<>>
    /\ timers > 0
    /\ last.op = "settled"

-----------------------------------------------------------------------------
(* Activation: C34 *)

\* C34: initialization runs at most once: the configuration is loaded once and
\* the linter adapters are constructed once, also when startLinting() is called
\* before the initialize() of the constructor has completed.
C34_InitializationRunsOnce ==
    /\ boot.loads <= 1
    /\ boot.constructed <= 1

-----------------------------------------------------------------------------
(* Statistics and dispatches: C35 *)

\* C35: filesProcessed never exceeds the number of files handed to a linter
\* adapter; stated for the states in which no workspace run is under way and
\* nothing is queued, in a batch or waiting for the timer.
C35_ProcessedAtMostDispatched ==
    (ws.pc = "idle" /\ lintingQueue = <<>> /\ active = <<>> /\ timers = 0)
        => lintingStats.filesProcessed <= Len(trace.disp)

-----------------------------------------------------------------------------
(* The file-limit prompt: C36 *)

\* C36: after the file-limit prompt, more files than the limit are enqueued
\* only when the answer was 'Yes', and a prompt dismissed without an answer
\* enqueues nothing.
C36_OverLimitOnlyOnYes ==
    last.op \in PromptResponses =>
        /\ last.op = "undefined" => RunEnqueued = {}
        /\ Cardinality(RunEnqueued) > fileLimit(configCache) => last.op = "Yes"

-----------------------------------------------------------------------------
(* Deleted files: C37 *)

\* C37: once a file-deleted event has cleared the diagnostics of a file, no
\* entry for the file comes back without a new event for it, also when a lint
\* of the file was pending at the deletion: the lint of the file that settles
\* in the step after the deletion leaves the file without an entry.
C37_DeletedFileStaysCleared ==
    [][(last.op = "fileDeleted" /\ last'.op = "settled"
            /\ last'.file = last.file)
          => ~diagnosticCollection'[last.file].present]_vars

-----------------------------------------------------------------------------
(* The order of the queue and the batch draw: C38, C39 *)

\* C38: in every state the queue is in non-increasing order of priority.
C38_QueueSortedByPriority == SortedByPriority(lintingQueue)

\* the file enqueued last went ahead of a waiting file of lower priority
C38_Witness ==
    /\ last.op = "addToQueue"
    /\ Len(lintingQueue) >= 2
    /\ lintingQueue[1].uri = last.file
    /\ lintingQueue[1].priority > lintingQueue[2].priority

\* a step in which processQueue draws a batch
DrawsBatch == Len(active') = Len(active) + 1

\* C39: a batch draw removes min(5, queue length) items, at most five, none of
\* lower priority than an item it leaves, and takes or leaves every item that
\* was pending; an item comes into the queue only by an addToQueue call for
\* its file, never by itself after it was drawn.
C39_BatchDraw ==
    [][/\ DrawsBatch =>
            LET batch == active'[Len(active')].batch
                left == lintingQueue'
                others(S) == {it \in S : it.uri # last'.file}
            IN  /\ Len(batch) <= batchSize
                /\ Len(batch) = Min(batchSize, Len(batch) + Len(left))
                /\ \A x \in Range(batch), y \in Range(left) :
                      x.priority >= y.priority
                /\ Range(batch) \cap Range(left) = {}
                /\ others(Range(batch) \cup Range(left))
                      = others(Range(lintingQueue))
       /\ \A f \in Files :
             (~InQueue(lintingQueue, f) /\ InQueue(lintingQueue', f))
                => (last'.op = "addToQueue" /\ last'.file = f)]_vars

\* six files were waiting when the timer drew a batch: five were drawn, the
\* one left is of the low priority
C39_Witness ==
    /\ Len(trace.batch) = batchSize
    /\ Len(lintingQueue) = 1
    /\ lintingQueue[1].priority = LowPriority
    /\ \E i \in 1..Len(active) : active[i].batch = trace.batch
    /\ trace.batch[1].priority = HighPriority

-----------------------------------------------------------------------------
(* The statistics of the Diagnostic Sink: C40 *)

\* the files with an entry in fileStats
StatsEntries == {f \in Files : fileStats[f].present}

\* the sum of a count over the files of S
RECURSIVE SumOfEntries(_, _)
SumOfEntries(S, count) ==
    IF S = {} THEN 0
    ELSE LET f == CHOOSE x \in S : TRUE
         IN  count[f] + SumOfEntries(S \ {f}, count)

\* C40: after any sequence of setDiagnostics, addDiagnostics, clearDiagnostics
\* and clearAllDiagnostics, totalIssues is errorCount + warningCount +
\* infoCount, each count is the sum of the per-file counts, totalFiles is the
\* number of per-file entries, and a file has a per-file entry exactly when
\* its diagnostics were set and not cleared since.
C40_StatsConsistent ==
    /\ diagnosticStats.totalIssues
          = diagnosticStats.errorCount + diagnosticStats.warningCount
              + diagnosticStats.infoCount
    /\ diagnosticStats.errorCount
          = SumOfEntries(StatsEntries, [f \in Files |-> fileStats[f].errors])
    /\ diagnosticStats.warningCount
          = SumOfEntries(StatsEntries, [f \in Files |-> fileStats[f].warnings])
    /\ diagnosticStats.infoCount
          = SumOfEntries(StatsEntries, [f \in Files |-> fileStats[f].info])
    /\ diagnosticStats.totalFiles = Cardinality(StatsEntries)
    /\ \A f \in Files : fileStats[f].present <=> diagnosticCollection[f].present

\* one file was cleared after both had diagnostics; the other one keeps the
\* issues set and added
C40_Witness ==
    /\ last.op = "clearDiagnostics"
    /\ ~fileStats[last.file].present
    /\ diagnosticStats.totalFiles = 1
    /\ diagnosticStats.totalIssues = MaxIssues
    /\ diagnosticStats.infoCount > 0
    /\ \E f \in SinkFiles :
          /\ diagnosticCollection[f].present
          /\ Len(diagnosticCollection[f].issues) = MaxIssues
          /\ diagnosticCollection[f].issues[1] = "info"

=============================================================================
